---- MODULE Spec2Model ----
(***************************************************************************)
(* The POST /webhook pipeline of faktura-automation: signature check,      *)
(* settle delay, folder listing, newest-CSV selection, download, parse,    *)
(* transform, invoice generation and archive move; and the GET /webhook    *)
(* that answers the verification challenge.                                *)
(*                                                                         *)
(* The repository holds several revisions of the handler.  Spec covers     *)
(* four of them, named after the file that holds them:                     *)
(*   RevIndex    src/index.js 255-343 (part_001 228-311 is the same        *)
(*               handler)                                                  *)
(*   RevPart007  src/unnamed/part_007 193-266 (the same handler is in      *)
(*               part_000 230-291 and part_006 415-480)                    *)
(*   RevPart006  src/unnamed/part_006 580-649, an earlier handler without  *)
(*               settle delay and invoice (part_005 125-184 is the same    *)
(*               handler written with dropbox(..).promise())               *)
(*   RevPart004  src/unnamed/part_004 35-100, an earlier handler that      *)
(*               follows the cursors of the accounts named in the payload  *)
(*               instead of listing the input folder                       *)
(* HistorySpec follows four earlier revisions of the folder pipeline       *)
(* (index.js 930-1015, 643-715 and 1128-1236, part_006 132-209), which     *)
(* differ from RevIndex in their parser, their file names and their        *)
(* response bodies.  TransformSpec, ArchiveSpec and ChallengeSpec take one *)
(* step on its own: the transformation of a parsed row, the archive move   *)
(* (with moveCSVFile of part_003 55-78) and the GET handler (with the one  *)
(* of part_002 17-24).                                                     *)
(* TextSpec takes the pipeline from the parse on, for the text of a CSV    *)
(* with one data row, split into cells as the csv-parser package does.     *)
(* ListingSpec lists folders that are longer than one page of the listing. *)
(* Not modelled: the POST handlers of part_002 27-59 and part_000 28-60,   *)
(* whose signature check is the library call dropbox.webhook.verify.       *)
(* In these specifications one invocation runs at a time; invocations      *)
(* follow each other against the same remote store.  ProcessSpec and       *)
(* RetrySpec keep the locals of the handler that returned, to compare two  *)
(* invocations of one process; ConcurrentSpec interleaves two invocations  *)
(* at the awaits of the handler; LiveSpec adds external calls that never   *)
(* answer and the fairness of the event loop.                              *)
(***************************************************************************)
EXTENDS Integers, Sequences, FiniteSets, TLC

VARIABLES
    rev,          \* the revision of the handler that is deployed
    pc,           \* position of the current invocation in the handler
    wire,         \* req: the body bytes received on the wire
    sigHeader,    \* req.header('x-dropbox-signature')
    rawBody,      \* req.rawBody: [defined, str], set by the verify hook
    reqBody,      \* req.body, the parsed JSON payload
    responses,    \* the statuses sent with res.status(..).send(..), in order
    sent,         \* the bodies sent with them: [type, text]
    query,        \* req.query.challenge of a GET request
    trace,        \* the steps the invocation has started, in order
    failedAt,     \* the step that threw or rejected, "none" otherwise
    folderContents, \* the entries files/list_folder returned
    csvFiles,     \* the filtered and sorted listing
    targetFile,   \* csvFiles[0]
    csvContent,   \* the downloaded content of targetFile
    parsedData,   \* the rows the CSV parser emitted
    products,     \* the transformed product records
    inputFolder,  \* remote store: entries of the input folder, in listing order
    processed,    \* remote store: files moved into the processed folder
    invoices,     \* remote store: invoices uploaded to the output folder
    template,     \* remote store: the worksheet of the invoice template
    clock,        \* Date.now()
    served,       \* number of invocations received
    storeBefore,  \* the remote store as it was when the invocation began
    cursors,      \* part_004: the accounts whose cursor is held in memory
    todo,         \* part_004: the accounts of the payload not yet visited
    waiting       \* the invocations suspended at an await while another one runs

vars == <<rev, pc, wire, sigHeader, rawBody, reqBody, responses, sent, query, trace,
          failedAt, folderContents, csvFiles, targetFile, csvContent, parsedData, products,
          inputFolder, processed, invoices, template, clock, served, storeBefore,
          cursors, todo, waiting>>

(***************************************************************************)
(* Bounds of the model.                                                    *)
(***************************************************************************)
MaxEntries == 2
MaxInvocations == 2
MaxRows == 2
MaxStr == 3

(***************************************************************************)
(* Response bodies.  res.send(text) answers with Content-Type text/html,   *)
(* res.type('text').send(text) with text/plain, res.sendStatus(200) with   *)
(* the plain text "OK".                                                    *)
(***************************************************************************)
Send(text) == [type |-> "text/html", text |-> text]

SendText(text) == [type |-> "text/plain", text |-> text]

SendStatus200 == [type |-> "text/plain", text |-> "OK"]

\* parameters: { path } without a limit
NoLimit == 0

(***************************************************************************)
(* Revisions.                                                              *)
(*   pipeline         "folder": the handler lists the input folder;        *)
(*                    "cursor": it follows the cursors of the accounts     *)
(*   settleDelay      the handler waits WEBHOOK_DELAY before listing       *)
(*   entriesAt        where the handler looks for the listing's entries    *)
(*   limit            the limit parameter of files/list_folder, NoLimit    *)
(*                    where the call passes none                           *)
(*   lowerCaseFilter  the filter lower-cases the name before endsWith      *)
(*   parser           "rows": the parser resolves with every data row;     *)
(*                    "first": csv() without options, resolves with the    *)
(*                    first data row and rejects when there is none;       *)
(*                    "firstLine": csv({headers}), every line is a record, *)
(*                    resolves with the first and rejects when there is    *)
(*                    none                                                 *)
(*   transforms       the rows are mapped to product records               *)
(*   namesFile        a product record carries fileName                    *)
(*   cleansDecimals   the decimal fields are stripped of every character   *)
(*                    but digits and comma before they are parsed          *)
(*   archiveFirst     the archive move comes before the invoice            *)
(*   archive          the name the archived file gets: "stamped"           *)
(*                    <name>_<now>.csv, "stampedExt" <base>_<now><ext>,    *)
(*                    "plain" <name>                                       *)
(*   invoice          the name the invoice gets: "stamped"                 *)
(*                    <base>_<now>.xlsx, "plain" <base>.xlsx; "none": the  *)
(*                    revision builds no invoice                           *)
(*   baseNameIgnoresCase  the suffix is removed with /\.csv$/i             *)
(*   innerCatch       download, parse and move run in a try block of their *)
(*                    own                                                  *)
(*   challenge        GET /webhook: "echo" the handler sends the query's   *)
(*                    challenge back; "checked": it first rejects a        *)
(*                    request without one; "none": the application has no  *)
(*                    GET route                                            *)
(*   denied, nothing, complete, error, innerError  the response bodies     *)
(***************************************************************************)
RevIndex ==
    [name |-> "index", pipeline |-> "folder", settleDelay |-> TRUE,
     entriesAt |-> "entries", limit |-> 10, lowerCaseFilter |-> TRUE, archiveFirst |-> FALSE,
     cleansDecimals |-> TRUE, parser |-> "rows", transforms |-> TRUE,
     namesFile |-> TRUE, archive |-> "stamped", invoice |-> "stamped",
     baseNameIgnoresCase |-> FALSE, innerCatch |-> FALSE,
     challenge |-> "none",
     denied |-> Send("Unauthorized"), nothing |-> Send("No files to process"),
     complete |-> Send("Processing complete"),
     error |-> Send("Internal server error"),
     innerError |-> Send("Internal server error")]

RevPart007 ==
    [name |-> "part_007", pipeline |-> "folder", settleDelay |-> TRUE,
     entriesAt |-> "entries", limit |-> NoLimit, lowerCaseFilter |-> FALSE, archiveFirst |-> TRUE,
     cleansDecimals |-> FALSE, parser |-> "rows", transforms |-> TRUE,
     namesFile |-> TRUE, archive |-> "stamped", invoice |-> "stamped",
     baseNameIgnoresCase |-> FALSE, innerCatch |-> FALSE,
     challenge |-> "none",
     denied |-> Send("Unauthorized"), nothing |-> Send("No files to process"),
     complete |-> Send("OK"), error |-> Send("Internal server error"),
     innerError |-> Send("Internal server error")]

RevPart006 ==
    [name |-> "part_006", pipeline |-> "folder", settleDelay |-> FALSE,
     entriesAt |-> "result.entries", limit |-> 10, lowerCaseFilter |-> TRUE, archiveFirst |-> TRUE,
     cleansDecimals |-> FALSE, parser |-> "first", transforms |-> FALSE,
     namesFile |-> FALSE, archive |-> "plain", invoice |-> "none",
     baseNameIgnoresCase |-> FALSE, innerCatch |-> TRUE,
     challenge |-> "none",
     denied |-> Send("Uautoriseret"), nothing |-> SendStatus200,
     complete |-> SendStatus200, error |-> Send("Serverfejl"),
     innerError |-> Send("Behandlingsfejl")]

RevPart004 ==
    [name |-> "part_004", pipeline |-> "cursor", settleDelay |-> FALSE,
     entriesAt |-> "entries", limit |-> NoLimit, lowerCaseFilter |-> FALSE, archiveFirst |-> TRUE,
     cleansDecimals |-> FALSE, parser |-> "rows", transforms |-> FALSE,
     namesFile |-> FALSE, archive |-> "plain", invoice |-> "none",
     baseNameIgnoresCase |-> FALSE, innerCatch |-> FALSE,
     challenge |-> "echo",
     denied |-> Send("Uautoriseret"), nothing |-> SendStatus200,
     complete |-> SendStatus200, error |-> Send("Serverfejl"),
     innerError |-> Send("Serverfejl")]

Revisions == {RevIndex, RevPart007, RevPart006, RevPart004}

(***************************************************************************)
(* Earlier revisions of the folder pipeline, followed on their own (see    *)
(* HistorySpec):                                                           *)
(*   RevIndex930   src/index.js 930-1015 with generateInvoice 886-918      *)
(*   RevIndex643   src/index.js 643-715 with the generateInvoiceFile whose *)
(*                 body is left at index.js 551-605                        *)
(*   RevIndex1128  src/index.js 1128-1236 with parseCSVContent 1239-1267   *)
(*                 and moveCSVFile 1098-1125                               *)
(*   RevPart006a   src/unnamed/part_006 132-209                            *)
(***************************************************************************)
RevIndex930 ==
    [RevIndex EXCEPT !.name = "index_930", !.limit = 20, !.baseNameIgnoresCase = TRUE,
                     !.nothing = Send("No CSV files to process")]

RevIndex643 == [RevIndex EXCEPT !.name = "index_643", !.invoice = "plain"]

RevIndex1128 ==
    [name |-> "index_1128", pipeline |-> "folder", settleDelay |-> TRUE,
     entriesAt |-> "entries", limit |-> 10, lowerCaseFilter |-> TRUE, archiveFirst |-> TRUE,
     cleansDecimals |-> FALSE, parser |-> "firstLine", transforms |-> FALSE,
     namesFile |-> FALSE, archive |-> "stampedExt", invoice |-> "none",
     baseNameIgnoresCase |-> FALSE, innerCatch |-> TRUE,
     challenge |-> "none",
     denied |-> Send("Uautoriseret"), nothing |-> SendStatus200,
     complete |-> SendStatus200, error |-> Send("Serverfejl"),
     innerError |-> Send("Behandlingsfejl")]

RevPart006a ==
    [RevIndex EXCEPT !.name = "part_006a", !.archiveFirst = TRUE,
                     !.namesFile = FALSE, !.invoice = "none"]

HistoryRevisions == {RevIndex930, RevIndex643, RevIndex1128, RevPart006a}

\* src/unnamed/part_002 17-24: the GET handler that checks the challenge.
\* The model follows this revision through its GET handler only (see
\* ChallengeSpec); its POST handler is not modelled.
RevPart002 == [RevPart004 EXCEPT !.name = "part_002", !.challenge = "checked"]

\* src/unnamed/part_003 55-112: the handler is printed with its signature
\* check and everything after the listing left out ("som foer", "resten af
\* koden uaendret"); those parts are the ones of part_006 580-649, whose
\* helper functions part_003 26-78 repeats.  The model follows this revision
\* through its archive move only (see ArchiveSpec).
RevPart003 ==
    [RevPart006 EXCEPT !.name = "part_003", !.entriesAt = "entries", !.limit = 1]

(***************************************************************************)
(* Bytes, characters and the conversions between them.                     *)
(* A byte or character is written as a short string.  "FF" is a byte that  *)
(* is no valid UTF-8; "EF","BF","BD" are the UTF-8 bytes of U+FFFD, the    *)
(* replacement character, written "FFFD" as a character.                   *)
(***************************************************************************)
AsciiBytes == {"{", "}", "sp", "q", "k", ":", ",", "list_folder.accounts", "dbid"}

RECURSIVE BufToString(_)
\* buf.toString(): UTF-8 decoding; an invalid byte decodes to U+FFFD
BufToString(buf) ==
    IF buf = <<>> THEN <<>>
    ELSE IF Len(buf) >= 3 /\ SubSeq(buf, 1, 3) = <<"EF", "BF", "BD">>
         THEN <<"FFFD">> \o BufToString(SubSeq(buf, 4, Len(buf)))
         ELSE IF Head(buf) \in AsciiBytes
              THEN <<Head(buf)>> \o BufToString(Tail(buf))
              ELSE <<"FFFD">> \o BufToString(Tail(buf))

RECURSIVE Utf8Bytes(_)
\* the bytes hash.update(string) feeds to the HMAC: the UTF-8 encoding
Utf8Bytes(str) ==
    IF str = <<>> THEN <<>>
    ELSE IF Head(str) = "FFFD"
         THEN <<"EF", "BF", "BD">> \o Utf8Bytes(Tail(str))
         ELSE <<Head(str)>> \o Utf8Bytes(Tail(str))

RECURSIVE StripSpace(_, _)
StripSpace(str, inString) ==
    IF str = <<>> THEN <<>>
    ELSE IF Head(str) = "q"
         THEN <<"q">> \o StripSpace(Tail(str), ~inString)
         ELSE IF Head(str) = "sp" /\ ~inString
              THEN StripSpace(Tail(str), inString)
              ELSE <<Head(str)>> \o StripSpace(Tail(str), inString)

\* the positions of the quote characters of a text
Quotes(str) == {i \in 1..Len(str) : str[i] = "q"}

\* the n-th smallest member of a set of positions
Nth(S, n) == CHOOSE i \in S : Cardinality({j \in S : j < i}) = n - 1

\* express.json(): the parsed payload, an object held as the sequence of its
\* members; the payloads of the model have string members only
JsonParse(str) ==
    LET s == StripSpace(str, FALSE)
        Q == Quotes(s)
    IN  [m \in 1..(Cardinality(Q) \div 4) |->
            [key   |-> SubSeq(s, Nth(Q, 4 * m - 3) + 1, Nth(Q, 4 * m - 2) - 1),
             value |-> SubSeq(s, Nth(Q, 4 * m - 1) + 1, Nth(Q, 4 * m) - 1)]]

RECURSIVE Members(_)
\* the members of an object as JSON.stringify writes them
Members(obj) ==
    IF obj = <<>> THEN <<>>
    ELSE <<"q">> \o Head(obj).key \o <<"q", ":", "q">> \o Head(obj).value \o <<"q">>
         \o (IF Len(obj) > 1 THEN <<",">> ELSE <<>>) \o Members(Tail(obj))

\* JSON.stringify(req.body): no white space between the tokens
JsonStringify(value) == <<"{">> \o Members(value) \o <<"}">>

(***************************************************************************)
(* HMAC.  The digest is a keyed fold over the bytes; on the bodies of the  *)
(* model it has no collisions (see DigestsDistinct).                       *)
(***************************************************************************)
AppSecret == "app-secret"

OtherSecret == "other-secret"

Secrets == {AppSecret, OtherSecret}

KeySeed(secret) == IF secret = AppSecret THEN 7 ELSE 11

ByteCode(b) ==
    CASE b = "{" -> 1 [] b = "}" -> 2 [] b = "sp" -> 3 [] b = "q" -> 4
      [] b = "k" -> 5 [] b = ":" -> 6 [] b = "FF" -> 7 [] b = "EF" -> 8
      [] b = "BF" -> 9 [] b = "BD" -> 10 [] b = "," -> 11
      [] b = "list_folder.accounts" -> 12 [] b = "dbid" -> 13

RECURSIVE Fold(_, _)
Fold(bytes, h) ==
    IF bytes = <<>> THEN h
    ELSE Fold(Tail(bytes), (h * 31 + ByteCode(Head(bytes))) % 65521)

\* digest('hex'): the digest written as a string of digits
Hex(n) == <<n \div 256, n % 256>>

\* crypto.createHmac('sha256', secret).update(bytes).digest('hex')
HmacHexBytes(secret, bytes) == Hex(Fold(bytes, KeySeed(secret)))

\* crypto.createHmac('sha256', secret).update(str).digest('hex')
HmacHex(secret, str) == HmacHexBytes(secret, Utf8Bytes(str))

(***************************************************************************)
(* Requests.                                                               *)
(***************************************************************************)
BodyCompact == <<"{", "}">>

BodySpaced == <<"{", "sp", "}">>

BodyBadUtf8 == <<"{", "q", "k", "q", ":", "q", "FF", "q", "}">>

\* the notification of a change in one account: the member
\* list_folder.accounts, written as one flat member with one account id
BodyAccount == <<"{", "q", "list_folder.accounts", "q", ":", "q", "dbid", "q", "}">>

Bodies == {BodyCompact, BodySpaced, BodyBadUtf8, BodyAccount}

\* req.body.list_folder?.accounts || []
Accounts(payload) ==
    LET Named(m) == m.key = <<"list_folder.accounts">>
        members == SelectSeq(payload, Named)
    IN  [i \in 1..Len(members) |-> members[i].value]

\* req.header(..) of a request without the header: undefined
NoHeader == <<>>

\* the headers a body is sent with: none, its digest under either secret,
\* the digest of its decoded text, the digest of its re-serialised payload
\* and the digest of another body
HeadersFor(b) ==
    {NoHeader,
     HmacHexBytes(AppSecret, b),
     HmacHexBytes(OtherSecret, b),
     HmacHex(AppSecret, BufToString(b)),
     HmacHex(AppSecret, JsonStringify(JsonParse(BufToString(b)))),
     HmacHexBytes(AppSecret, IF b = BodyCompact THEN BodySpaced ELSE BodyCompact)}

SigHeaders == UNION {HeadersFor(b) : b \in Bodies}

\* the requests: <<content type is JSON, body on the wire, signature header>>;
\* a request of another content type is taken with one body, since the
\* handler never sees its body
Requests ==
    UNION {{TRUE} \X {b} \X HeadersFor(b) : b \in Bodies}
    \cup ({FALSE} \X {BodyCompact} \X {NoHeader, HmacHexBytes(AppSecret, BodyCompact)})

(***************************************************************************)
(* Strings and numbers of the transformation.  A string is a sequence of   *)
(* characters.  A number is [nan, units, scale] and stands for             *)
(* units / 10^scale; nan is JavaScript's NaN.                              *)
(***************************************************************************)
\* a field the row does not have: item.<field> is undefined
Missing == <<"undefined">>

Digits == {"0", "1", "2", "3", "4", "5", "6", "7", "8", "9"}

DigitValue(c) ==
    CASE c = "0" -> 0 [] c = "1" -> 1 [] c = "2" -> 2 [] c = "3" -> 3 [] c = "4" -> 4
      [] c = "5" -> 5 [] c = "6" -> 6 [] c = "7" -> 7 [] c = "8" -> 8 [] c = "9" -> 9

NaN == [nan |-> TRUE, units |-> 0, scale |-> 0]

Zero == [nan |-> FALSE, units |-> 0, scale |-> 0]

RECURSIVE Normal(_, _)
\* the number units / 10^scale without trailing zeros in the fraction
Normal(units, scale) ==
    IF scale > 0 /\ units % 10 = 0 THEN Normal(units \div 10, scale - 1)
    ELSE [nan |-> FALSE, units |-> units, scale |-> scale]

\* x || 0: NaN and 0 are falsy
OrZero(n) == IF n.nan \/ n.units = 0 THEN Zero ELSE n

RECURSIVE SkipSpace(_)
SkipSpace(str) ==
    IF str # <<>> /\ Head(str) = " " THEN SkipSpace(Tail(str)) ELSE str

RECURSIVE TakeDigits(_)
\* the longest prefix of digits
TakeDigits(str) ==
    IF str # <<>> /\ Head(str) \in Digits THEN <<Head(str)>> \o TakeDigits(Tail(str))
    ELSE <<>>

RECURSIVE DigitsValue(_)
DigitsValue(ds) ==
    IF ds = <<>> THEN 0
    ELSE 10 * DigitsValue(SubSeq(ds, 1, Len(ds) - 1)) + DigitValue(ds[Len(ds)])

\* the text after an optional sign
Unsigned(str) ==
    IF str # <<>> /\ Head(str) \in {"-", "+"} THEN Tail(str) ELSE str

Sign(str) == IF str # <<>> /\ Head(str) = "-" THEN -1 ELSE 1

\* parseInt(str, 10): white space, sign, digits; what follows is ignored
ParseInt(str) ==
    LET s  == SkipSpace(str)
        ds == TakeDigits(Unsigned(s))
    IN  IF ds = <<>> THEN NaN ELSE Normal(Sign(s) * DigitsValue(ds), 0)

\* parseFloat(str): white space, sign, digits, a point and digits; what
\* follows is ignored (the strings of the model hold no exponent)
ParseFloat(str) ==
    LET s     == SkipSpace(str)
        u     == Unsigned(s)
        whole == TakeDigits(u)
        rest  == SubSeq(u, Len(whole) + 1, Len(u))
        frac  == IF rest # <<>> /\ Head(rest) = "." THEN TakeDigits(Tail(rest)) ELSE <<>>
    IN  IF whole = <<>> /\ frac = <<>> THEN NaN
        ELSE Normal(Sign(s) * DigitsValue(whole \o frac), Len(frac))

\* str.replace(/[^0-9,]/g, '')
KeepDigitsAndComma(str) ==
    LET Kept(c) == c \in Digits \cup {","} IN SelectSeq(str, Kept)

RECURSIVE ReplaceFirstComma(_)
\* str.replace(',', '.'): the first comma only
ReplaceFirstComma(str) ==
    IF str = <<>> THEN <<>>
    ELSE IF Head(str) = "," THEN <<".">> \o Tail(str)
         ELSE <<Head(str)>> \o ReplaceFirstComma(Tail(str))

\* index.js: parseNumber(str)
ParseNumber(str) ==
    LET cleaned == ReplaceFirstComma(KeepDigitsAndComma(str))
    IN  IF cleaned = <<>> THEN Zero ELSE ParseFloat(cleaned)

\* the decimal field of a product: parseNumber(str) in index.js,
\* parseFloat(str.replace(',', '.')) || 0 in part_007
ParseDecimal(r, str) ==
    IF r.cleansDecimals THEN ParseNumber(str)
    ELSE OrZero(ParseFloat(ReplaceFirstComma(str)))

\* a trim that strips nothing
KeepSpaces(str) == str

RECURSIVE TrimLeft(_)
TrimLeft(str) == IF str # <<>> /\ Head(str) = " " THEN TrimLeft(Tail(str)) ELSE str

RECURSIVE TrimRight(_)
TrimRight(str) ==
    IF str # <<>> /\ str[Len(str)] = " " THEN TrimRight(SubSeq(str, 1, Len(str) - 1))
    ELSE str

\* String.prototype.trim
Trim(str) == TrimRight(TrimLeft(str))

RECURSIVE Split(_, _)
\* str.split(sep): the segments between the separators, in order
Split(str, sep) ==
    IF \A i \in 1..Len(str) : str[i] # sep THEN <<str>>
    ELSE LET k == CHOOSE i \in 1..Len(str) :
                      str[i] = sep /\ \A j \in 1..(i - 1) : str[j] # sep
         IN  <<SubSeq(str, 1, k - 1)>> \o Split(SubSeq(str, k + 1, Len(str)), sep)

\* item.locations.split('-').map(l => l.trim())
SplitLocations(str) ==
    LET segs == Split(str, "-") IN [i \in 1..Len(segs) |-> Trim(segs[i])]

(***************************************************************************)
(* The remote store.                                                       *)
(***************************************************************************)
NameLower == <<"a", ".", "c", "s", "v">>

NameUpper == <<"B", ".", "C", "S", "V">>

NameText == <<"c", ".", "t", "x", "t">>

LowerChar(c) ==
    CASE c = "B" -> "b" [] c = "C" -> "c" [] c = "S" -> "s" [] c = "V" -> "v"
      [] OTHER -> c

\* String.prototype.toLowerCase
ToLowerCase(str) == [i \in 1..Len(str) |-> LowerChar(str[i])]

\* String.prototype.endsWith
EndsWith(str, suffix) ==
    /\ Len(str) >= Len(suffix)
    /\ SubSeq(str, Len(str) - Len(suffix) + 1, Len(str)) = suffix

DotCsv == <<".", "c", "s", "v">>

\* the raw record the parser emits for the i-th data row of a well-formed CSV
ProductRow(i) ==
    [product_id |-> <<"p", CHOOSE c \in Digits : DigitValue(c) = i>>,
     style |-> <<"s">>, name |-> <<"n">>, amount |-> <<"7">>,
     locations |-> <<"A", "-", "B">>,
     purchase_price_dkk |-> <<"1", ",", "5">>, rrp |-> <<"2", ",", "5">>]

RowFull == ProductRow(1)

\* a row with fewer fields than headers: the last columns are missing
RowShort ==
    [ProductRow(1) EXCEPT !.locations = Missing, !.purchase_price_dkk = Missing,
                          !.rrp = Missing]

\* the rows of a well-formed CSV with n data rows
ProductRows(n) == [i \in 1..n |-> ProductRow(i)]

NoContent == [kind |-> "none", rows |-> <<>>]

\* the text of a file of no bytes
EmptyText == [kind |-> "empty", rows |-> <<>>]

\* what axios.get(link) resolves to: the text of a CSV (a header line and
\* the data rows), the empty text, or, for a file whose text is itself JSON,
\* the parsed value, which is no string
Contents ==
    {[kind |-> "csv", rows |-> ProductRows(n)] : n \in 0..MaxRows}
    \cup {[kind |-> "csv", rows |-> <<RowShort>>], EmptyText,
          [kind |-> "json", rows |-> <<>>]}

\* typeof content === 'string'
IsText(content) == content.kind \in {"csv", "empty", "text"}

(***************************************************************************)
(* The text of a CSV.  A content of kind "text" holds the data lines of a  *)
(* file as characters, below the header line                               *)
(*   Product Id;Style;Name;Size;Amount;Locations;Purchase Price DKK;RRP;   *)
(*   Tariff Code;Country of Origin                                         *)
(* which mapHeaders turns into the keys product_id, style, name, size,     *)
(* amount, locations, purchase_price_dkk, rrp, tariff_code and             *)
(* country_of_origin.  parseLine, parseCell and writeRow are the parser's  *)
(* (csv-parser, with its default quote and escape character).              *)
(***************************************************************************)
Quote == "\""

Separator == ";"

\* value.replace(/^"|"$/g, ''): a quote at the start and a quote at the end
\* are removed
StripOuterQuotes(str) ==
    LET a == IF str # <<>> /\ Head(str) = Quote THEN Tail(str) ELSE str
    IN  IF a # <<>> /\ a[Len(a)] = Quote THEN SubSeq(a, 1, Len(a) - 1) ELSE a

\* csvData.split('\n').map(line => line.trim().replace(/^"|"$/g, ''))
CleanLine(line) == StripOuterQuotes(Trim(line))

\* parseCell: an escape character before a quote is dropped; of a run of
\* quotes the first, the third, .. are escape characters when a quote follows
Unescape(str) ==
    LET RunStart(i) == CHOOSE a \in 1..i :
                           /\ \A j \in a..i : str[j] = Quote
                           /\ (a = 1 \/ str[a - 1] # Quote)
        Dropped(i) == /\ str[i] = Quote
                      /\ i < Len(str) /\ str[i + 1] = Quote
                      /\ (i - RunStart(i)) % 2 = 0
        kept == {i \in 1..Len(str) : ~Dropped(i)}
        KeptAt(k) == CHOOSE i \in kept : Cardinality({j \in kept : j < i}) = k - 1
    IN  [k \in 1..Cardinality(kept) |-> str[KeptAt(k)]]

\* parseCell: the quotes of a quoted cell are removed
ParseCell(str) ==
    IF Len(str) >= 1 /\ str[1] = Quote /\ str[Len(str)] = Quote
    THEN (IF Len(str) >= 2 THEN Unescape(SubSeq(str, 2, Len(str) - 1)) ELSE <<>>)
    ELSE Unescape(str)

\* mapValues: value.replace(/^"|"$/g, '').trim()
MapValue(str) == Trim(StripOuterQuotes(str))

\* the stretches of a line between its separators
Stretches(line) ==
    LET seps == {i \in 1..Len(line) : line[i] = Separator}
        From(k) == IF k = 1 THEN 1
                   ELSE 1 + CHOOSE i \in seps : Cardinality({j \in seps : j < i}) = k - 2
        To(k) == IF k = Cardinality(seps) + 1 THEN Len(line)
                 ELSE (CHOOSE i \in seps : Cardinality({j \in seps : j < i}) = k - 1) - 1
    IN  [k \in 1..(Cardinality(seps) + 1) |-> SubSeq(line, From(k), To(k))]

RECURSIVE ScanStretch(_, _, _, _)
\* parseLine: the loop over the characters up to the next separator, and
\* whether it ends inside quotes; a quote opens a quoted stretch wherever it
\* stands and closes it only right before a separator
ScanStretch(str, i, isQuoted, isLast) ==
    IF i > Len(str) THEN isQuoted
    ELSE LET isStartingQuote == ~isQuoted /\ str[i] = Quote
             isEndingQuote == isQuoted /\ str[i] = Quote /\ i = Len(str) /\ ~isLast
             isEscape == isQuoted /\ str[i] = Quote /\ i < Len(str) /\ str[i + 1] = Quote
         IN  IF isStartingQuote \/ isEndingQuote
             THEN ScanStretch(str, i + 1, ~isQuoted, isLast)
             ELSE IF isEscape THEN ScanStretch(str, i + 2, isQuoted, isLast)
             ELSE ScanStretch(str, i + 1, isQuoted, isLast)

RECURSIVE ScanLine(_, _, _, _, _)
\* parseLine: a separator outside quotes ends the cell, one inside quotes
\* belongs to it; the rest of the line is the last cell
ScanLine(stretches, k, isQuoted, held, cells) ==
    LET isLast == k = Len(stretches)
        quotedAfter == ScanStretch(stretches[k], 1, isQuoted, isLast)
        cell == held \o stretches[k]
    IN  IF isLast
        THEN cells
             \o (IF cell # <<>> THEN <<MapValue(ParseCell(cell))>> ELSE <<>>)
             \o (IF stretches[k] = <<>> THEN <<MapValue(<<>>)>> ELSE <<>>)
        ELSE IF quotedAfter
        THEN ScanLine(stretches, k + 1, quotedAfter, cell \o <<Separator>>, cells)
        ELSE ScanLine(stretches, k + 1, quotedAfter, <<>>,
                      Append(cells, MapValue(ParseCell(cell))))

ParseLine(line) == IF line = <<>> THEN <<>> ELSE ScanLine(Stretches(line), 1, FALSE, <<>>, <<>>)

\* writeRow: cell i goes under header i; a header without a cell is left
\* undefined
WriteRow(cells) ==
    LET Cell(i) == IF i <= Len(cells) THEN cells[i] ELSE Missing
    IN  [product_id |-> Cell(1), style |-> Cell(2), name |-> Cell(3), amount |-> Cell(5),
         locations |-> Cell(6), purchase_price_dkk |-> Cell(7), rrp |-> Cell(8)]

\* the records of the data lines of a text
TextRecords(lines) == [i \in 1..Len(lines) |-> WriteRow(ParseLine(CleanLine(lines[i])))]

\* the record csv({headers}) makes of the header line of a CSV
HeaderLine ==
    [product_id |-> <<"h">>, style |-> <<"h">>, name |-> <<"h">>, amount |-> <<"h">>,
     locations |-> <<"h">>, purchase_price_dkk |-> <<"h">>, rrp |-> <<"h">>]

\* the records the parser has pushed when it emits 'end'
ParsedRecords(r, content) ==
    IF content.kind = "text" THEN TextRecords(content.lines)
    ELSE IF r.parser = "firstLine" /\ content.kind = "csv"
    THEN <<HeaderLine>> \o content.rows
    ELSE content.rows

\* .on('end', ..): whether the promise resolves; the parsers that hand out
\* the first record reject when there is none
ResolveOnEnd(r, records) == r.parser = "rows" \/ records # <<>>

\* what the promise resolves with: resolve(results), or resolve(results[0])
Resolved(r, records) == IF r.parser = "rows" THEN records ELSE <<records[1]>>

Timestamps == 1..MaxEntries

\* a.csv holds any of the contents; the other files hold one well-formed
\* row, which for the file no revision downloads stands for any content
FileEntries ==
    [tag : {"file"}, name : {NameLower}, server_modified : Timestamps,
     content : Contents]
    \cup [tag : {"file"}, name : {NameUpper, NameText}, server_modified : Timestamps,
          content : {[kind |-> "csv", rows |-> <<RowFull>>]}]

\* a folder entry has no server_modified; the folder of the model is named
\* like a CSV file
FolderEntries ==
    [tag : {"folder"}, name : {NameLower}, server_modified : {0}, content : {NoContent}]

Entries == FileEntries \cup FolderEntries

\* a folder the store can hold: names differ (Dropbox compares them without
\* case), and the files carry distinct modification times
IsFolderState(listing) ==
    /\ \A i, j \in 1..Len(listing) :
           i # j => ToLowerCase(listing[i].name) # ToLowerCase(listing[j].name)
    /\ \A i, j \in 1..Len(listing) :
           (i # j /\ listing[i].tag = "file" /\ listing[j].tag = "file")
              => listing[i].server_modified # listing[j].server_modified

Listings ==
    {l \in UNION {[1..n -> Entries] : n \in 0..MaxEntries} : IsFolderState(l)}

NoFile == [tag |-> "none", name |-> <<>>, server_modified |-> 0, content |-> NoContent]

(***************************************************************************)
(* Discovery: filter and sort of the listing.                              *)
(***************************************************************************)
\* a filter that forgets the tag
PassesFilterAnyTag(r, f) ==
    EndsWith(IF r.lowerCaseFilter THEN ToLowerCase(f.name) ELSE f.name, DotCsv)

\* f['.tag'] === 'file' && f.name.toLowerCase().endsWith('.csv'); the
\* part_007 revision tests f.name.endsWith('.csv')
PassesFilter(r, f) ==
    /\ f.tag = "file"
    /\ EndsWith(IF r.lowerCaseFilter THEN ToLowerCase(f.name) ELSE f.name, DotCsv)

FilterCsv(r, entries) ==
    LET Keep(f) == PassesFilter(r, f) IN SelectSeq(entries, Keep)

\* new Date(b.server_modified) - new Date(a.server_modified): negative when
\* a is the newer one and goes first
Compare(a, b) == b.server_modified - a.server_modified

RECURSIVE InsertSorted(_, _)
InsertSorted(x, sorted) ==
    IF sorted = <<>> THEN <<x>>
    ELSE IF Compare(Head(sorted), x) <= 0
         THEN <<Head(sorted)>> \o InsertSorted(x, Tail(sorted))
         ELSE <<x>> \o sorted

RECURSIVE SortNewestFirst(_)
\* Array.prototype.sort with Compare: stable
SortNewestFirst(entries) ==
    IF entries = <<>> THEN <<>>
    ELSE InsertSorted(entries[Len(entries)],
                      SortNewestFirst(SubSeq(entries, 1, Len(entries) - 1)))

\* a discovery that finds the files on the first notification only
DiscoverFirstTime(r, entries) ==
    IF served > 1 THEN <<>> ELSE SortNewestFirst(FilterCsv(r, entries))

Discover(r, entries) == SortNewestFirst(FilterCsv(r, entries))

(***************************************************************************)
(* Transformation.                                                         *)
(***************************************************************************)
\* item.locations.split('-'), item.purchase_price_dkk.replace(..) and
\* item.rrp.replace(..) throw a TypeError when the field is undefined
TransformThrows(rows) ==
    \E i \in 1..Len(rows) :
        Missing \in {rows[i].locations, rows[i].purchase_price_dkk, rows[i].rrp}

\* the product record of one raw record
Product(r, item, file) ==
    [fileName |-> IF r.namesFile THEN file.name ELSE Missing,
     productId |-> item.product_id,
     style |-> item.style,
     productName |-> item.name,
     amount |-> OrZero(ParseInt(item.amount)),
     locations |-> SplitLocations(item.locations),
     purchasePriceDKK |-> ParseDecimal(r, item.purchase_price_dkk),
     rrp |-> ParseDecimal(r, item.rrp)]

\* parsedData.map(item => ({...})): one product per row, in row order
Transform(r, rows, file) == [i \in 1..Len(rows) |-> Product(r, rows[i], file)]

(***************************************************************************)
(* The invoice worksheet.  A sheet maps a cell <<column, row>> to what it  *)
(* holds: what the template had there, a text or a number.                 *)
(***************************************************************************)
FirstProductRow == 13

Columns == <<"A", "B", "C", "D", "E", "F">>

ColumnIndex(col) == CHOOSE k \in 1..Len(Columns) : Columns[k] = col

\* the rows of the sheet the model follows: the row of the customer name,
\* the product rows and one row below them
SheetRows == {5} \cup FirstProductRow..(FirstProductRow + MaxRows)

TemplateCell == [kind |-> "template", text |-> <<>>, num |-> Zero]

\* a value sheet_add_aoa passes over: null or undefined
Skipped == [kind |-> "skipped", text |-> <<>>, num |-> Zero]

TextCell(str) == IF str = Missing THEN Skipped ELSE [kind |-> "text", text |-> str, num |-> Zero]

NumberCell(n) == [kind |-> "number", text |-> <<>>, num |-> n]

\* the first worksheet of Invoice-template.xlsx
Template ==
    [c \in {<<Columns[k], row>> : k \in 1..Len(Columns), row \in SheetRows} |-> TemplateCell]

\* XLSX.utils.sheet_add_aoa(worksheet, [values], {origin}): the values go
\* into the row of the origin, from its column rightwards; null and
\* undefined leave the cell as it is
SheetAddAoa(sheet, values, col, row) ==
    [c \in DOMAIN sheet |->
        LET k == ColumnIndex(c[1]) - ColumnIndex(col) + 1
        IN  IF c[2] = row /\ k \in 1..Len(values) /\ values[k] # Skipped
            THEN values[k] ELSE sheet[c]]

\* a sheet in which every product goes into the first product row
SheetRowFixed(index) == FirstProductRow

\* const row = 13 + index
SheetRow(index) == FirstProductRow + index

\* the aoa of one product: the fourth value is null
ProductCells(p) ==
    <<TextCell(p.productId), TextCell(p.style), TextCell(p.productName), Skipped,
      NumberCell(p.amount), NumberCell(p.rrp)>>

RECURSIVE AddProducts(_, _, _)
\* products.forEach((product, index) => sheet_add_aoa(.., origin A<row>))
AddProducts(sheet, prods, index) ==
    IF index >= Len(prods) THEN sheet
    ELSE AddProducts(SheetAddAoa(sheet, ProductCells(prods[index + 1]), "A", SheetRow(index)),
                     prods, index + 1)

\* fileName.replace(/\.csv$/, '')
BaseName(name) ==
    IF EndsWith(name, DotCsv) THEN SubSeq(name, 1, Len(name) - Len(DotCsv)) ELSE name

\* fileName.replace(/\.csv$/i, '')
BaseNameIgnoringCase(name) ==
    IF EndsWith(ToLowerCase(name), DotCsv)
    THEN SubSeq(name, 1, Len(name) - Len(DotCsv)) ELSE name

\* const baseName = products[0].fileName.replace(..)
CustomerName(r, fileName) ==
    IF r.baseNameIgnoresCase THEN BaseNameIgnoringCase(fileName) ELSE BaseName(fileName)

\* the worksheet generateInvoiceFile writes out, on the workbook read from
\* the template; the function left at index.js 551-605 writes no cell B5
InvoiceSheet(r, sheet, prods) ==
    AddProducts(IF r.invoice = "plain" THEN sheet
                ELSE SheetAddAoa(sheet, <<TextCell(CustomerName(r, prods[1].fileName))>>,
                                 "B", 5),
                prods, 0)

(***************************************************************************)
(* Paths of the remote store: [folder, name].                              *)
(***************************************************************************)
DotXlsx == <<".", "x", "l", "s", "x">>

DigitChar(d) == CHOOSE c \in Digits : DigitValue(c) = d

RECURSIVE Decimal(_)
\* the decimal digits of a number, as template literals write it
Decimal(n) ==
    IF n < 10 THEN <<DigitChar(n)>> ELSE Decimal(n \div 10) \o <<DigitChar(n % 10)>>

\* new Date().toISOString().replace(/[:.]/g, '-'): the instant, to the
\* millisecond, in a fixed layout; the model writes the instant in decimal
\* between the marks of the layout
IsoStamp(now) == <<"T">> \o Decimal(now) \o <<"Z">>

\* the positions of the dots of a name
Dots(name) == {i \in 1..Len(name) : name[i] = "."}

\* path.extname(name): from the last dot on; empty without a dot, or when
\* the only dot is the first character
ExtName(name) ==
    LET last == IF Dots(name) = {} THEN 0
                ELSE CHOOSE i \in Dots(name) : \A j \in Dots(name) : j <= i
    IN  IF last <= 1 THEN <<>> ELSE SubSeq(name, last, Len(name))

\* path.basename(name, ext): the name without ext, when it ends with ext and
\* is more than ext
PathBaseName(name, ext) ==
    IF EndsWith(name, ext) /\ name # ext
    THEN SubSeq(name, 1, Len(name) - Len(ext)) ELSE name

\* the name of the archived file:
\*   `${originalName}_${timestamp}.csv`    (archiveProcessedFile)
\*   `${baseName}_${timestamp}${ext}`      (moveCSVFile, index.js 1098)
\*   fileName                              (moveCSVFile, part_003 55)
ArchiveName(r, name, now) ==
    CASE r.archive = "stamped" -> name \o <<"_">> \o Decimal(now) \o DotCsv
      [] r.archive = "stampedExt" ->
            PathBaseName(name, DotCsv) \o <<"_">> \o Decimal(now)
            \o (IF ExtName(name) = <<>> THEN DotCsv ELSE ExtName(name))
      [] r.archive = "plain" -> name

ArchivePath(r, name, now) == [folder |-> "processed", name |-> ArchiveName(r, name, now)]

\* an invoice name without the instant
InvoiceNamePlain(r, fileName, now) ==
    IF EndsWith(fileName, DotCsv)
    THEN SubSeq(fileName, 1, Len(fileName) - Len(DotCsv)) \o DotXlsx ELSE fileName

\* the name of the invoice: `${baseName}_${iso}.xlsx`, or, in the function
\* left at index.js 551-605, fileName.replace(/\.csv$/, '.xlsx')
InvoiceName(r, fileName, now) ==
    IF r.invoice = "plain"
    THEN InvoiceNamePlain(r, fileName, now)
    ELSE CustomerName(r, fileName) \o <<"_">> \o IsoStamp(now) \o DotXlsx

\* '/template/Invoice-template.xlsx'
TemplatePath == [folder |-> "template", name |-> <<"Invoice-template", ".", "x", "l", "s", "x">>]

\* an upload that goes back to where the template came from
InvoicePathOverTemplate(r, fileName, now) == TemplatePath

\* `/Teamsport-Invoice/${fileName}`
InvoicePath(r, fileName, now) ==
    [folder |-> "invoice", name |-> InvoiceName(r, fileName, now)]

(***************************************************************************)
(* State.                                                                  *)
(***************************************************************************)
reqVars == <<wire, sigHeader, rawBody, reqBody, query, storeBefore>>

cursorVars == <<cursors, todo>>

dataVars == <<folderContents, csvFiles, targetFile, csvContent, parsedData, products>>

storeVars == <<inputFolder, processed, invoices, template>>

Undefined == [defined |-> FALSE, str |-> <<>>]

\* the server is up with one of the revisions revs, and the remote store
\* holds an input folder
Start(revs) ==
    /\ rev \in revs
    /\ pc = "idle"
    /\ wire = <<>>
    /\ sigHeader = NoHeader
    /\ rawBody = Undefined
    /\ reqBody = <<>>
    /\ query = Missing
    /\ responses = <<>>
    /\ sent = <<>>
    /\ trace = <<>>
    /\ failedAt = "none"
    /\ folderContents = <<>>
    /\ csvFiles = <<>>
    /\ targetFile = NoFile
    /\ csvContent = NoContent
    /\ parsedData = <<>>
    /\ products = <<>>
    /\ inputFolder \in Listings
    /\ processed = {}
    /\ invoices = {}
    /\ template = Template
    /\ clock = 0
    /\ served = 0
    /\ storeBefore = <<inputFolder, {}, {}>>
    /\ cursors = {}
    /\ todo = <<>>
    /\ waiting = <<>>

Init == Start(Revisions)

\* a step that is started: it is logged, and control moves on
Step(name, next) ==
    /\ trace' = Append(trace, name)
    /\ pc' = next

\* a catch block that answers 200 after logging the error
CatchAnswering200(name) ==
    /\ trace' = Append(trace, name)
    /\ failedAt' = name
    /\ responses' = Append(responses, 200)
    /\ sent' = Append(sent, rev.complete)
    /\ pc' = "done"

\* the steps inside the try block of a revision that has an inner one
InnerSteps == {"link", "download", "parse", "move"}

\* res.status(500).send(..) of the catch block that catches the step
ErrorBody(r, name) ==
    IF r.innerCatch /\ name \in InnerSteps THEN r.innerError ELSE r.error

\* catch (error) { res.status(500).send('Internal server error') }
Catch(name) ==
    /\ trace' = Append(trace, name)
    /\ failedAt' = name
    /\ responses' = Append(responses, 500)
    /\ sent' = Append(sent, ErrorBody(rev, name))
    /\ pc' = "done"

\* res.status(200).send(..) at the end of the handler, or where the folder
\* has nothing to process
Complete(name) ==
    /\ trace' = Append(trace, name)
    /\ responses' = Append(responses, 200)
    /\ sent' = Append(sent, IF name = "list" THEN rev.nothing ELSE rev.complete)
    /\ pc' = "done"

(***************************************************************************)
(* express.json({verify}) and the start of the handler.  The verify hook   *)
(* runs for a request that carries a JSON body; for any other request      *)
(* express.json passes the request on untouched.                           *)
(***************************************************************************)
Accept(isJson, body, header) ==
    /\ pc \in {"idle", "done"}
    /\ served < MaxInvocations
    /\ served' = served + 1
    /\ clock' = clock + 1
    /\ wire' = body
    /\ sigHeader' = header
    /\ rawBody' = IF isJson THEN [defined |-> TRUE, str |-> BufToString(body)]
                           ELSE Undefined
    /\ reqBody' = IF isJson THEN JsonParse(BufToString(body)) ELSE <<>>
    /\ responses' = <<>>
    /\ sent' = <<>>
    /\ trace' = <<>>
    /\ failedAt' = "none"
    /\ folderContents' = <<>>
    /\ csvFiles' = <<>>
    /\ targetFile' = NoFile
    /\ csvContent' = NoContent
    /\ parsedData' = <<>>
    /\ products' = <<>>
    /\ pc' = "signature"
    /\ storeBefore' = <<inputFolder, processed, invoices>>
    /\ todo' = <<>>
    /\ UNCHANGED <<rev, storeVars, cursors, query>>

Receive(isJson, body, header) == Accept(isJson, body, header) /\ UNCHANGED waiting

\* the step after a valid signature: the settle delay, where there is one
AfterSignature(r) ==
    IF r.pipeline = "cursor" THEN "accounts"
    ELSE IF r.settleDelay THEN "delay" ELSE "list"

\* a check that hashes the re-serialised payload instead of the raw body
SignatureValidReserialised(raw, header) ==
    header = HmacHex(AppSecret, JsonStringify(JsonParse(raw)))

\* signature !== expectedSignature
SignatureValid(raw, header) == header = HmacHex(AppSecret, raw)

CheckSignature ==
    /\ pc = "signature"
    /\ IF ~rawBody.defined
       THEN \* .update(undefined) throws
            Catch("signature")
       ELSE IF ~SignatureValid(rawBody.str, sigHeader)
            THEN /\ trace' = Append(trace, "signature")
                 /\ responses' = Append(responses, 403)
                 /\ sent' = Append(sent, rev.denied)
                 /\ pc' = "done"
                 /\ UNCHANGED failedAt
            ELSE Step("signature", AfterSignature(rev)) /\ UNCHANGED <<responses, sent, failedAt>>
    /\ UNCHANGED <<rev, waiting, cursorVars, reqVars, dataVars, storeVars, clock, served>>

\* await new Promise(r => setTimeout(r, WEBHOOK_DELAY))
SettleDelay ==
    /\ pc = "delay"
    /\ Step("delay", "list")
    /\ UNCHANGED <<rev, waiting, cursorVars, reqVars, responses, sent, failedAt, dataVars, storeVars, clock, served>>

(***************************************************************************)
(* part_004: the accounts of the payload are visited one after the other;  *)
(* an error of a remote call is caught inside the loop and logged, and the *)
(* loop goes on to the next account.                                       *)
(***************************************************************************)
\* where the loop goes with the accounts that are left: an account without a
\* cursor is listed first
Visit(rest, held) ==
    IF rest = <<>> THEN "respond"
    ELSE IF Head(rest) \in held THEN "cursor_continue" ELSE "cursor_list"

\* a step of the loop is over, with or without an error, and the loop goes to
\* next; after the last account res.sendStatus(200)
Advance(name, next) ==
    /\ trace' = Append(trace, name)
    /\ IF next = "respond"
       THEN /\ responses' = Append(responses, 200)
            /\ sent' = Append(sent, rev.complete)
            /\ pc' = "done"
       ELSE /\ UNCHANGED <<responses, sent>>
            /\ pc' = next

\* const accounts = req.body.list_folder?.accounts || []
ReadAccounts ==
    /\ pc = "accounts"
    /\ todo' = Accounts(reqBody)
    /\ Advance("accounts", Visit(todo', cursors))
    /\ UNCHANGED <<rev, waiting, cursors, reqVars, failedAt, dataVars, storeVars, clock, served>>

\* files/list_folder of the root, to get a first cursor for the account
CursorList ==
    /\ pc = "cursor_list"
    /\ \/ /\ cursors' = cursors \cup {Head(todo)}
          /\ Step("cursor_list", "cursor_continue")
          /\ UNCHANGED <<todo, responses, sent, failedAt>>
       \/ /\ failedAt' = "cursor_list"
          /\ todo' = Tail(todo)
          /\ Advance("cursor_list", Visit(todo', cursors))
          /\ UNCHANGED cursors
    /\ UNCHANGED <<rev, waiting, reqVars, dataVars, storeVars, clock, served>>

\* files/list_folder/continue: the changes since the cursor
CursorContinue ==
    /\ pc = "cursor_continue"
    /\ todo' = Tail(todo)
    /\ Advance("cursor_continue", Visit(todo', cursors))
    /\ \/ UNCHANGED failedAt
       \/ failedAt' = "cursor_continue"
    /\ UNCHANGED <<rev, waiting, cursors, reqVars, dataVars, storeVars, clock, served>>

(***************************************************************************)
(* Discovery.                                                              *)
(***************************************************************************)
\* the entries the handler reads off the listing: files/list_folder answers
\* {entries, cursor, has_more}, so result.entries is undefined and
\* !folderList?.result?.entries?.length holds whatever the folder holds
EntriesReadWhenNotified(r, listing) ==
    IF r.entriesAt = "entries" /\ Accounts(reqBody) # <<>> THEN listing ELSE <<>>

EntriesRead(r, listing) == IF r.entriesAt = "entries" THEN listing ELSE <<>>

\* what files/list_folder answers: the entries up to the limit; the handler
\* never calls files/list_folder/continue for the rest
FirstPage(r, listing) ==
    IF r.limit = NoLimit \/ Len(listing) <= r.limit THEN listing
    ELSE SubSeq(listing, 1, r.limit)

\* files/list_folder, then the filter, the sort and the empty check
ListFolder ==
    /\ pc = "list"
    /\ \/ /\ Catch("list")
          /\ UNCHANGED dataVars
       \/ /\ folderContents' = FirstPage(rev, inputFolder)
          /\ csvFiles' = Discover(rev, EntriesRead(rev, folderContents'))
          /\ IF csvFiles' = <<>>
             THEN /\ Complete("list")
                  /\ UNCHANGED <<targetFile, failedAt>>
             ELSE /\ targetFile' = csvFiles'[1]
                  /\ Step("list", "link")
                  /\ UNCHANGED <<responses, sent, failedAt>>
          /\ UNCHANGED <<csvContent, parsedData, products>>
    /\ UNCHANGED <<rev, waiting, cursorVars, reqVars, storeVars, clock, served>>

InInputFolder(file) == \E i \in 1..Len(inputFolder) : inputFolder[i].name = file.name

\* files/get_temporary_link for targetFile.path_display
GetTemporaryLink ==
    /\ pc = "link"
    /\ \/ Catch("link")
       \/ /\ InInputFolder(targetFile)
          /\ Step("link", "download")
          /\ UNCHANGED <<responses, sent, failedAt>>
    /\ UNCHANGED <<rev, waiting, cursorVars, reqVars, dataVars, storeVars, clock, served>>

\* axios.get(link)
DownloadContent ==
    /\ pc = "download"
    /\ \/ /\ Catch("download")
          /\ UNCHANGED dataVars
       \/ /\ csvContent' = targetFile.content
          /\ Step("download", "parse")
          /\ UNCHANGED <<responses, sent, failedAt, folderContents, csvFiles, targetFile,
                         parsedData, products>>
    /\ UNCHANGED <<rev, waiting, cursorVars, reqVars, storeVars, clock, served>>

\* an error handler that resolves with the rows read so far
OnParserErrorResolve == "resolve"

\* parser.on('error', err => reject(err))
OnParserError == "reject"

\* a handler that builds the invoice from the parsed rows
AfterParseToInvoice(r) == "template_link"

\* the step after the parse: the revisions without product records go on
\* to the archive move
AfterParse(r) == IF r.transforms THEN "transform" ELSE "move"

\* parseCSVContent: csvData.split('\n') or parser.write(csvData) throws when
\* the download is no string; the parser emits its records and 'end', or,
\* on a row, it emits 'error'
ParseCsv ==
    /\ pc = "parse"
    /\ \/ /\ ~IsText(csvContent)
          /\ Catch("parse")
          /\ UNCHANGED dataVars
       \/ /\ IsText(csvContent)
          /\ IF ResolveOnEnd(rev, ParsedRecords(rev, csvContent))
             THEN /\ parsedData' = Resolved(rev, ParsedRecords(rev, csvContent))
                  /\ Step("parse", AfterParse(rev))
                  /\ UNCHANGED <<responses, sent, failedAt, folderContents, csvFiles,
                                 targetFile, csvContent, products>>
             ELSE /\ Catch("parse")
                  /\ UNCHANGED dataVars
       \/ /\ csvContent.kind = "csv"
          /\ IF OnParserError = "reject"
             THEN /\ Catch("parse")
                  /\ UNCHANGED dataVars
             ELSE /\ parsedData' = csvContent.rows
                  /\ failedAt' = "parse"
                  /\ Step("parse", "transform")
                  /\ UNCHANGED <<responses, sent, folderContents, csvFiles, targetFile,
                                 csvContent, products>>
    /\ UNCHANGED <<rev, waiting, cursorVars, reqVars, storeVars, clock, served>>

\* a handler that builds the invoice whatever the number of products
AfterTransformAlwaysInvoice(r, prods) ==
    IF r.archiveFirst THEN "move" ELSE "template_link"

\* the step after the transformation: index.js builds the invoice first
\* (if (products.length > 0)), part_007 archives first
AfterTransform(r, prods) ==
    IF r.archiveFirst THEN "move"
    ELSE IF Len(prods) > 0 THEN "template_link" ELSE "move"

\* parsedData.map(item => ({...}))
TransformRecords ==
    /\ pc = "transform"
    /\ IF TransformThrows(parsedData)
       THEN /\ Catch("transform")
            /\ UNCHANGED dataVars
       ELSE /\ products' = Transform(rev, parsedData, targetFile)
            /\ Step("transform", AfterTransform(rev, products'))
            /\ UNCHANGED <<responses, sent, failedAt, folderContents, csvFiles, targetFile,
                           csvContent, parsedData>>
    /\ UNCHANGED <<rev, waiting, cursorVars, reqVars, storeVars, clock, served>>

(***************************************************************************)
(* Archive move and invoice.                                               *)
(***************************************************************************)
\* a handler that answers as soon as the file is archived
AfterMoveResponding(r, prods) == "respond"

\* the step after the archive move: in part_007 the invoice follows
\* (if (products.length)), in index.js the response
AfterMove(r, prods) ==
    IF r.archiveFirst /\ r.invoice # "none" /\ Len(prods) > 0
    THEN "template_link" ELSE "respond"

\* a handler that goes on to another invoice after the upload
AfterUploadNextFile(r) == "template_link"

\* the step after the upload: in index.js the archive move follows
AfterUpload(r) == IF r.archiveFirst THEN "respond" ELSE "move"

\* a move that leaves the source where it was
KeepEntry(listing, file) == listing

RemoveEntry(listing, file) ==
    LET Other(f) == f.name # file.name IN SelectSeq(listing, Other)

\* files/move_v2 with autorename false answers with a conflict when there
\* is a file at to_path
Occupied(files, path) == \E f \in files : f.path = path

\* archiveProcessedFile / moveDropboxFile / moveCSVFile: files/move_v2 to
\* the archive path; the call fails, or it moves the file
ArchiveMove ==
    /\ pc = "move"
    /\ \/ /\ Catch("move")
          /\ UNCHANGED storeVars
       \/ /\ InInputFolder(targetFile)
          /\ ~Occupied(processed, ArchivePath(rev, targetFile.name, clock))
          /\ inputFolder' = RemoveEntry(inputFolder, targetFile)
          /\ processed' = processed \cup
                {[name |-> targetFile.name, stamp |-> clock, content |-> targetFile.content,
                  path |-> ArchivePath(rev, targetFile.name, clock)]}
          /\ UNCHANGED <<invoices, template>>
          /\ IF AfterMove(rev, products) = "respond"
             THEN Complete("move") /\ UNCHANGED failedAt
             ELSE Step("move", AfterMove(rev, products)) /\ UNCHANGED <<responses, sent, failedAt>>
    /\ UNCHANGED <<rev, waiting, cursorVars, reqVars, dataVars, clock, served>>

\* downloadFile(template): files/get_temporary_link
TemplateLink ==
    /\ pc = "template_link"
    /\ \/ Catch("template_link")
       \/ Step("template_link", "template_download") /\ UNCHANGED <<responses, sent, failedAt>>
    /\ UNCHANGED <<rev, waiting, cursorVars, reqVars, dataVars, storeVars, clock, served>>

\* downloadFile(template): axios.get(link, arraybuffer)
TemplateDownload ==
    /\ pc = "template_download"
    /\ \/ Catch("template_download")
       \/ IF Len(products) = 0
          THEN \* products[0].fileName throws
               Catch("template_download")
          ELSE Step("template_download", "upload") /\ UNCHANGED <<responses, sent, failedAt>>
    /\ UNCHANGED <<rev, waiting, cursorVars, reqVars, dataVars, storeVars, clock, served>>

\* files/upload with mode overwrite: the file at the path is replaced
Overwrite(files, file) == {f \in files : f.path # file.path} \cup {file}

\* the workbook is filled and uploaded: files/upload, mode overwrite
UploadInvoice ==
    /\ pc = "upload"
    /\ \/ /\ Catch("upload")
          /\ UNCHANGED storeVars
       \/ /\ LET file == [customer |-> products[1].fileName, stamp |-> clock,
                          rows |-> Len(products),
                          sheet |-> InvoiceSheet(rev, template, products),
                          path |-> InvoicePath(rev, products[1].fileName, clock)]
             IN  IF file.path = TemplatePath
                 THEN template' = file.sheet /\ UNCHANGED invoices
                 ELSE invoices' = Overwrite(invoices, file) /\ UNCHANGED template
          /\ UNCHANGED <<inputFolder, processed>>
          /\ IF AfterUpload(rev) = "respond"
             THEN Complete("upload") /\ UNCHANGED failedAt
             ELSE Step("upload", AfterUpload(rev)) /\ UNCHANGED <<responses, sent, failedAt>>
    /\ UNCHANGED <<rev, waiting, cursorVars, reqVars, dataVars, clock, served>>

Next ==
    \/ \E req \in Requests : Receive(req[1], req[2], req[3])
    \/ CheckSignature
    \/ SettleDelay
    \/ ReadAccounts
    \/ CursorList
    \/ CursorContinue
    \/ ListFolder
    \/ GetTemporaryLink
    \/ DownloadContent
    \/ ParseCsv
    \/ TransformRecords
    \/ ArchiveMove
    \/ TemplateLink
    \/ TemplateDownload
    \/ UploadInvoice

Spec == Init /\ [][Next]_vars

(***************************************************************************)
(* The earlier revisions of the folder pipeline, with the same steps.      *)
(***************************************************************************)
HistoryInit == Start(HistoryRevisions)

HistoryNext ==
    \/ \E req \in Requests : Receive(req[1], req[2], req[3])
    \/ CheckSignature
    \/ SettleDelay
    \/ ListFolder
    \/ GetTemporaryLink
    \/ DownloadContent
    \/ ParseCsv
    \/ TransformRecords
    \/ ArchiveMove
    \/ TemplateLink
    \/ TemplateDownload
    \/ UploadInvoice

HistorySpec == HistoryInit /\ [][HistoryNext]_vars

(***************************************************************************)
(* The transformation on its own: the handler stands before                *)
(* parsedData.map(..) with one raw record, one field of which is drawn     *)
(* from the strings up to MaxStr characters and the examples of the        *)
(* specification.  The parser trims every value, so no field begins or     *)
(* ends with white space.                                                  *)
(***************************************************************************)
BoundedSeqs(S, n) == UNION {[1..k -> S] : k \in 0..n}

NumericStrings ==
    BoundedSeqs({"1", "2", ",", ".", "-", "x"}, MaxStr)
    \cup {<<"1", ".", "2", "3", "4", ",", "5", "6">>, <<"1", "2", "3", ",", "4", "5">>,
          <<"a", "b", "c">>, <<"7">>, Missing}

LocationStrings ==
    {l \in BoundedSeqs({"A", "-", " "}, MaxStr) : Trim(l) = l}
    \cup {<<"A", "-", "B", " ", "-", " ", "C">>, Missing}

RawRecords ==
    {[ProductRow(1) EXCEPT !.amount = str] : str \in NumericStrings}
    \cup {[ProductRow(1) EXCEPT !.purchase_price_dkk = str, !.rrp = str] :
              str \in NumericStrings}
    \cup {[ProductRow(1) EXCEPT !.locations = l] : l \in LocationStrings}

TransformInit ==
    /\ rev \in {RevIndex, RevPart007}
    /\ \E item \in RawRecords :
          /\ parsedData = <<item>>
          /\ csvContent = [kind |-> "csv", rows |-> <<item>>]
    /\ targetFile = [tag |-> "file", name |-> NameLower, server_modified |-> 1,
                     content |-> csvContent]
    /\ inputFolder = <<targetFile>>
    /\ folderContents = inputFolder
    /\ csvFiles = inputFolder
    /\ products = <<>>
    /\ pc = "transform"
    /\ trace = <<"signature", "delay", "list", "link", "download", "parse">>
    /\ wire = BodyCompact
    /\ sigHeader = HmacHexBytes(AppSecret, BodyCompact)
    /\ rawBody = [defined |-> TRUE, str |-> BufToString(BodyCompact)]
    /\ reqBody = JsonParse(BufToString(BodyCompact))
    /\ responses = <<>>
    /\ sent = <<>>
    /\ query = Missing
    /\ failedAt = "none"
    /\ processed = {}
    /\ invoices = {}
    /\ template = Template
    /\ clock = 1
    /\ served = 1
    /\ storeBefore = <<inputFolder, {}, {}>>
    /\ cursors = {}
    /\ todo = <<>>
    /\ waiting = <<>>

TransformSpec == TransformInit /\ [][TransformRecords]_vars

(***************************************************************************)
(* The pipeline from the parse on, for the text of a CSV with one data     *)
(* row: the ten fields P1, S1, Widget, M, 10, A-B, 100,00, 150,00, 8471    *)
(* and DK, each of them written with or without quotes.                    *)
(***************************************************************************)
WidgetFields ==
    << <<"P", "1">>, <<"S", "1">>, <<"W", "i", "d", "g", "e", "t">>, <<"M">>,
       <<"1", "0">>, <<"A", "-", "B">>, <<"1", "0", "0", ",", "0", "0">>,
       <<"1", "5", "0", ",", "0", "0">>, <<"8", "4", "7", "1">>, <<"D", "K">> >>

\* which fields are quoted: the first three and the last one by one, the
\* fields between them together
Quotings ==
    {q \in [1..Len(WidgetFields) -> BOOLEAN] :
        \A i \in 4..(Len(WidgetFields) - 1) : q[i] = q[4]}

AllQuoted == [i \in 1..Len(WidgetFields) |-> TRUE]

RECURSIVE JoinFields(_, _)
\* the line of the fields from the i-th on, separated by ';'
JoinFields(q, i) ==
    LET field == IF q[i] THEN <<Quote>> \o WidgetFields[i] \o <<Quote>>
                 ELSE WidgetFields[i]
    IN  IF i = Len(WidgetFields) THEN field
        ELSE field \o <<Separator>> \o JoinFields(q, i + 1)

WidgetText(q) == [kind |-> "text", rows |-> <<>>, lines |-> <<JoinFields(q, 1)>>]

TextInit ==
    /\ rev \in {RevIndex, RevPart007}
    /\ \E q \in Quotings : csvContent = WidgetText(q)
    /\ targetFile = [tag |-> "file", name |-> NameLower, server_modified |-> 1,
                     content |-> csvContent]
    /\ inputFolder = <<targetFile>>
    /\ folderContents = inputFolder
    /\ csvFiles = inputFolder
    /\ parsedData = <<>>
    /\ products = <<>>
    /\ pc = "parse"
    /\ trace = <<"signature", "delay", "list", "link", "download">>
    /\ wire = BodyCompact
    /\ sigHeader = HmacHexBytes(AppSecret, BodyCompact)
    /\ rawBody = [defined |-> TRUE, str |-> BufToString(BodyCompact)]
    /\ reqBody = JsonParse(BufToString(BodyCompact))
    /\ responses = <<>>
    /\ sent = <<>>
    /\ query = Missing
    /\ failedAt = "none"
    /\ processed = {}
    /\ invoices = {}
    /\ template = Template
    /\ clock = 1
    /\ served = 1
    /\ storeBefore = <<inputFolder, {}, {}>>
    /\ cursors = {}
    /\ todo = <<>>
    /\ waiting = <<>>

TextNext ==
    \/ ParseCsv
    \/ TransformRecords
    \/ ArchiveMove
    \/ TemplateLink
    \/ TemplateDownload
    \/ UploadInvoice

TextSpec == TextInit /\ [][TextNext]_vars

(***************************************************************************)
(* GET /webhook, the verification of the endpoint.  The query's challenge  *)
(* is a string, or missing.                                                *)
(***************************************************************************)
ChallengeRevisions == {RevIndex, RevPart004, RevPart002}

ChallengeChars == {"a", "b"}

Challenges == BoundedSeqs(ChallengeChars, MaxStr) \cup {Missing}

\* part_002 17-24:  if (!challenge) return res.status(400).send(..)
\*                  res.type('text/plain').send(challenge)
\* part_004 30-33:  res.type('text').send(req.query.challenge)
\* send(undefined) ends the response with an empty body
\* index.js 1-370:  the application registers app.post('/webhook') only, and
\*                  express answers a GET with its 404 page
ChallengeAnswer(r, challenge) ==
    CASE r.challenge = "none" -> <<404, Send("Cannot GET /webhook")>>
      [] r.challenge = "checked" /\ challenge \in {Missing, <<>>} ->
            <<400, Send("Mangler challenge parameter")>>
      [] OTHER -> <<200, SendText(IF challenge = Missing THEN <<>> ELSE challenge)>>

\* app.get('/webhook', ..)
GetWebhook(challenge) ==
    /\ pc \in {"idle", "done"}
    /\ served < MaxInvocations
    /\ served' = served + 1
    /\ clock' = clock + 1
    /\ query' = challenge
    /\ wire' = <<>>
    /\ sigHeader' = NoHeader
    /\ rawBody' = Undefined
    /\ reqBody' = <<>>
    /\ storeBefore' = <<inputFolder, processed, invoices>>
    /\ trace' = <<"challenge">>
    /\ failedAt' = "none"
    /\ responses' = <<ChallengeAnswer(rev, challenge)[1]>>
    /\ sent' = <<ChallengeAnswer(rev, challenge)[2]>>
    /\ pc' = "done"
    /\ UNCHANGED <<rev, waiting, cursorVars, dataVars, storeVars>>

ChallengeInit == Start(ChallengeRevisions)

ChallengeNext == \E challenge \in Challenges : GetWebhook(challenge)

ChallengeSpec == ChallengeInit /\ [][ChallengeNext]_vars

(***************************************************************************)
(* The archive move on its own: the handler stands before the move of the  *)
(* file it selected, downloaded and parsed, and the processed folder is    *)
(* empty or holds the archive an earlier run of the same revision made, at *)
(* instant 0, of a file of the same name.                                  *)
(***************************************************************************)
ArchiveRevisions == {RevPart007, RevIndex1128, RevPart003}

\* the steps of the handler up to the archive move
StepsBeforeMove(r) ==
    <<"signature">> \o (IF r.settleDelay THEN <<"delay">> ELSE <<>>)
    \o <<"list", "link", "download", "parse">>
    \o (IF r.transforms THEN <<"transform">> ELSE <<>>)

\* the archive an earlier run made of a file of that name
EarlierArchive(r, file) ==
    [name |-> file.name, stamp |-> 0, content |-> [kind |-> "csv", rows |-> <<RowFull>>],
     path |-> ArchivePath(r, file.name, 0)]

ArchiveInit ==
    /\ rev \in ArchiveRevisions
    /\ targetFile \in {f \in FileEntries :
            /\ PassesFilter(rev, f)
            /\ IsText(f.content)
            /\ ResolveOnEnd(rev, ParsedRecords(rev, f.content))
            /\ rev.transforms => ~TransformThrows(f.content.rows)}
    /\ inputFolder = <<targetFile>>
    /\ folderContents = inputFolder
    /\ csvFiles = inputFolder
    /\ csvContent = targetFile.content
    /\ parsedData = Resolved(rev, ParsedRecords(rev, csvContent))
    /\ products = IF rev.transforms THEN Transform(rev, parsedData, targetFile) ELSE <<>>
    /\ processed \in {{}, {EarlierArchive(rev, targetFile)}}
    /\ invoices = {}
    /\ template = Template
    /\ pc = "move"
    /\ trace = StepsBeforeMove(rev)
    /\ wire = BodyCompact
    /\ sigHeader = HmacHexBytes(AppSecret, BodyCompact)
    /\ rawBody = [defined |-> TRUE, str |-> BufToString(BodyCompact)]
    /\ reqBody = JsonParse(BufToString(BodyCompact))
    /\ query = Missing
    /\ responses = <<>>
    /\ sent = <<>>
    /\ failedAt = "none"
    /\ clock = 1
    /\ served = 1
    /\ storeBefore = <<inputFolder, processed, invoices>>
    /\ cursors = {}
    /\ todo = <<>>
    /\ waiting = <<>>

ArchiveSpec == ArchiveInit /\ [][ArchiveMove]_vars

(***************************************************************************)
(* Two invocations in one process.  Node runs one handler at a time and    *)
(* passes control at an await: the handler that runs has its locals in the *)
(* variables above, the locals of a suspended one are kept in waiting.     *)
(***************************************************************************)
ConcurrentRevisions == {RevIndex, RevPart007}

\* req, res and the consts of the handler that runs
Locals ==
    [pc |-> pc, wire |-> wire, sigHeader |-> sigHeader, rawBody |-> rawBody,
     reqBody |-> reqBody, responses |-> responses, sent |-> sent, trace |-> trace,
     failedAt |-> failedAt, folderContents |-> folderContents, csvFiles |-> csvFiles,
     targetFile |-> targetFile, csvContent |-> csvContent, parsedData |-> parsedData,
     products |-> products, storeBefore |-> storeBefore]

\* the steps that run without an await in front of them: the handler does
\* not give up control before them
SynchronousSteps == {"signature", "transform"}

\* the handler that runs is at an await, or has returned, and the event loop
\* goes on with the suspended one; time may pass meanwhile
Resume ==
    /\ waiting # <<>>
    /\ pc \notin SynchronousSteps
    /\ waiting[1].pc # "done"
    /\ waiting' = Tail(waiting) \o <<Locals>>
    /\ pc' = waiting[1].pc
    /\ wire' = waiting[1].wire
    /\ sigHeader' = waiting[1].sigHeader
    /\ rawBody' = waiting[1].rawBody
    /\ reqBody' = waiting[1].reqBody
    /\ responses' = waiting[1].responses
    /\ sent' = waiting[1].sent
    /\ trace' = waiting[1].trace
    /\ failedAt' = waiting[1].failedAt
    /\ folderContents' = waiting[1].folderContents
    /\ csvFiles' = waiting[1].csvFiles
    /\ targetFile' = waiting[1].targetFile
    /\ csvContent' = waiting[1].csvContent
    /\ parsedData' = waiting[1].parsedData
    /\ products' = waiting[1].products
    /\ storeBefore' = waiting[1].storeBefore
    /\ clock' \in {t \in {clock, clock + 1} : t <= MaxInvocations + 1}
    /\ UNCHANGED <<rev, query, storeVars, served, cursorVars>>

\* n notifications have arrived one after the other and passed the signature
\* check: each handler is at its first await
AtFirstAwait(revs, folders, n) ==
    /\ rev \in revs
    /\ inputFolder \in folders
    /\ processed = {}
    /\ invoices = {}
    /\ template = Template
    /\ pc = AfterSignature(rev)
    /\ trace = <<"signature">>
    /\ wire = BodyCompact
    /\ sigHeader = HmacHexBytes(AppSecret, BodyCompact)
    /\ rawBody = [defined |-> TRUE, str |-> BufToString(BodyCompact)]
    /\ reqBody = JsonParse(BufToString(BodyCompact))
    /\ query = Missing
    /\ responses = <<>>
    /\ sent = <<>>
    /\ failedAt = "none"
    /\ folderContents = <<>>
    /\ csvFiles = <<>>
    /\ targetFile = NoFile
    /\ csvContent = NoContent
    /\ parsedData = <<>>
    /\ products = <<>>
    /\ clock = n
    /\ served = n
    /\ storeBefore = <<inputFolder, processed, invoices>>
    /\ cursors = {}
    /\ todo = <<>>

ConcurrentInit == AtFirstAwait(ConcurrentRevisions, Listings, 2) /\ waiting = <<Locals>>

ConcurrentNext ==
    \/ Resume
    \/ SettleDelay
    \/ ListFolder
    \/ GetTemporaryLink
    \/ DownloadContent
    \/ ParseCsv
    \/ TransformRecords
    \/ ArchiveMove
    \/ TemplateLink
    \/ TemplateDownload
    \/ UploadInvoice

ConcurrentSpec == ConcurrentInit /\ [][ConcurrentNext]_vars

(***************************************************************************)
(* An invocation whose external calls may stay without an answer.  The     *)
(* calls are made without a timeout (axios.get(link), the dropbox client), *)
(* so a call that never answers leaves its promise pending.  The event     *)
(* loop runs the continuation of every promise that settles.               *)
(***************************************************************************)
LiveRevisions == {RevIndex, RevPart007}

\* the positions at which the handler awaits an external call
ExternalCalls ==
    {"list", "link", "download", "move", "template_link", "template_download", "upload"}

\* the call is sent and no answer ever comes
CallNeverAnswers ==
    /\ pc \in ExternalCalls
    /\ trace' = Append(trace, pc)
    /\ pc' = "pending"
    /\ UNCHANGED <<rev, waiting, cursorVars, reqVars, responses, sent, failedAt, dataVars,
                   storeVars, clock, served>>

\* the continuations the event loop runs
Continue ==
    \/ SettleDelay
    \/ ListFolder
    \/ GetTemporaryLink
    \/ DownloadContent
    \/ ParseCsv
    \/ TransformRecords
    \/ ArchiveMove
    \/ TemplateLink
    \/ TemplateDownload
    \/ UploadInvoice

LiveInit == AtFirstAwait(LiveRevisions, Listings, 1) /\ waiting = <<>>

LiveNext == Continue \/ CallNeverAnswers

LiveSpec == LiveInit /\ [][LiveNext]_vars /\ WF_vars(Continue)

(***************************************************************************)
(* Discovery in a folder that holds more entries than one page of the      *)
(* listing.  The folder holds the files f1.csv, f2.csv, .. in the order of *)
(* the listing; one of them is the newest, the others are older the later  *)
(* they are listed.                                                        *)
(***************************************************************************)
ListingRevisions == {RevIndex, RevIndex930, RevPart003}

MaxFolder == 21

\* the folder of n files whose p-th is the newest
LongListing(n, p) ==
    [i \in 1..n |->
        [tag |-> "file", name |-> <<"f">> \o Decimal(i) \o DotCsv,
         server_modified |-> IF i = p THEN MaxFolder + 2 ELSE MaxFolder + 1 - i,
         content |-> [kind |-> "csv", rows |-> <<RowFull>>]]]

LongListings == {LongListing(n, p) : n \in 1..MaxFolder, p \in 1..MaxFolder}

ListingInit == AtFirstAwait(ListingRevisions, LongListings, 1) /\ waiting = <<>>

ListingNext == SettleDelay \/ ListFolder

ListingSpec == ListingInit /\ [][ListingNext]_vars

(***************************************************************************)
(* One process that handles one notification after the other.  The locals  *)
(* of a handler that has returned are kept in waiting, next to what the    *)
(* process itself keeps between two requests (cursors).                    *)
(***************************************************************************)
ProcessRevisions == {RevIndex, RevPart004}

\* a notification arrives: the first one of the process, or the next one
\* after the handler has returned
ReceiveNext(isJson, body, header) ==
    /\ Accept(isJson, body, header)
    /\ waiting' = IF pc = "done" THEN <<Locals>> ELSE <<>>

ProcessInit == Start(ProcessRevisions)

ProcessNext ==
    \/ \E req \in Requests : ReceiveNext(req[1], req[2], req[3])
    \/ CheckSignature
    \/ SettleDelay
    \/ ReadAccounts
    \/ CursorList
    \/ CursorContinue
    \/ ListFolder
    \/ GetTemporaryLink
    \/ DownloadContent
    \/ ParseCsv
    \/ TransformRecords
    \/ ArchiveMove
    \/ TemplateLink
    \/ TemplateDownload
    \/ UploadInvoice

ProcessSpec == ProcessInit /\ [][ProcessNext]_vars

(***************************************************************************)
(* The same for the folder pipeline alone, with every notification signed: *)
(* the store sends the notification again after the handler has returned.  *)
(***************************************************************************)
RetryRevisions == {RevIndex, RevIndex930, RevPart007}

NotifyAgain ==
    /\ pc = "done"
    /\ ReceiveNext(TRUE, BodyCompact, HmacHexBytes(AppSecret, BodyCompact))

RetryInit == AtFirstAwait(RetryRevisions, Listings, 1) /\ waiting = <<>>

RetryNext == NotifyAgain \/ CheckSignature \/ Continue

RetrySpec == RetryInit /\ [][RetryNext]_vars

TypeOK ==
    /\ rev \in Revisions
    /\ pc \in {"idle", "signature", "delay", "list", "link", "download", "parse",
               "transform", "move", "template_link", "template_download", "upload", "done",
               "accounts", "cursor_list", "cursor_continue", "pending"}
    /\ served \in 0..MaxInvocations

(***************************************************************************)
(* Vocabulary of the properties.                                           *)
(***************************************************************************)
Contains(seq, x) == \E i \in 1..Len(seq) : seq[i] = x

RemoteSteps ==
    {"list", "link", "download", "move", "template_link", "template_download", "upload",
     "cursor_list", "cursor_continue"}

NoRemoteOperation == \A i \in 1..Len(trace) : trace[i] \notin RemoteSteps

\* the invocation passed the signature check
Authenticated ==
    /\ pc \notin {"idle", "signature"}
    /\ ~(pc = "done" /\ trace = <<"signature">>)

\* the invocation is past the signature check, one way or the other
Checked == pc \notin {"idle", "signature"}

\* on the bodies and secrets of the model the digest has no collision
DigestsDistinct ==
    \A s1, s2 \in Secrets : \A b1, b2 \in Bodies :
        (<<s1, b1>> # <<s2, b2>>) => HmacHexBytes(s1, b1) # HmacHexBytes(s2, b2)

(***************************************************************************)
(* C1  A POST /webhook whose signature header differs from the hex         *)
(* HMAC-SHA256 of the raw body under the shared secret (a missing header   *)
(* included) is answered 403 and performs no remote-store operation.       *)
(* The header here differs from the digest of the bytes on the wire and    *)
(* from the digest of whatever body the verify hook captured.              *)
(***************************************************************************)
HeaderMismatch ==
    /\ sigHeader # HmacHexBytes(AppSecret, wire)
    /\ rawBody.defined => sigHeader # HmacHex(AppSecret, rawBody.str)

C1_MismatchGets403 ==
    (pc = "done" /\ HeaderMismatch) => (responses = <<403>> /\ NoRemoteOperation)

\* the part of C1 that the handler keeps: no remote-store operation is
\* started by an invocation that is not authenticated
C1_NoOperationUnlessAuthenticated == ~Authenticated => NoRemoteOperation

C3_SignedWireBodyAuthenticated ==
    (Checked /\ rawBody.defined /\ sigHeader = HmacHexBytes(AppSecret, wire))
        => Authenticated

\* what the handler does guarantee: the re-serialised payload plays no part
C3_ReserialisationPlaysNoPart ==
    (Checked /\ rawBody.defined /\ Utf8Bytes(rawBody.str) = wire
        /\ sigHeader = HmacHexBytes(AppSecret, wire)) => Authenticated

(***************************************************************************)
(* C4  Every invocation sends exactly one response; its status is 403 iff  *)
(* the signature check failed, 200 iff the pipeline completed or found no  *)
(* CSV, 500 iff a step failed after authentication.                        *)
(***************************************************************************)
SignatureMatches == rawBody.defined /\ sigHeader = HmacHex(AppSecret, rawBody.str)

C4_OneResponsePerOutcome ==
    pc = "done" =>
        /\ Len(responses) = 1
        /\ responses[1] = 403 <=> ~SignatureMatches
        /\ responses[1] = 500 <=> (SignatureMatches /\ failedAt # "none")
        /\ responses[1] = 200 <=> (SignatureMatches /\ failedAt = "none")

\* the same for the requests whose body the verify hook captured, in the
\* revisions that list the input folder
C4_OneResponseForJsonRequests ==
    (pc = "done" /\ rawBody.defined /\ rev.pipeline = "folder") =>
        /\ Len(responses) = 1
        /\ responses[1] = 403 <=> ~SignatureMatches
        /\ responses[1] = 500 <=> (SignatureMatches /\ failedAt # "none")
        /\ responses[1] = 200 <=> (SignatureMatches /\ failedAt = "none")

(***************************************************************************)
(* C5  Within one invocation the steps occur only in the order signature   *)
(* check, settle delay, folder listing, temporary-link fetch, content      *)
(* download, parse, transform, archive move, invoice generation and        *)
(* upload, none repeated: the archive move comes before the template       *)
(* download and the upload.                                                *)
(***************************************************************************)
Rank(step) ==
    CASE step = "signature" -> 1 [] step = "delay" -> 2 [] step = "list" -> 3
      [] step = "link" -> 4 [] step = "download" -> 5 [] step = "parse" -> 6
      [] step = "transform" -> 7 [] step = "move" -> 8
      [] step = "template_link" -> 9 [] step = "template_download" -> 10
      [] step = "upload" -> 11
      [] step = "accounts" -> 2 [] step = "cursor_list" -> 3
      [] step = "cursor_continue" -> 4

C5_StepsInSpecOrder ==
    \A i, j \in 1..Len(trace) : i < j => Rank(trace[i]) < Rank(trace[j])

\* what holds in every revision: the steps up to the transformation come
\* in that order, and no step is taken twice
C5_PrefixOrderedNoRepeat ==
    /\ \A i, j \in 1..Len(trace) : i < j => trace[i] # trace[j]
    /\ \A i, j \in 1..Len(trace) :
          (i < j /\ Rank(trace[i]) <= 7) => Rank(trace[i]) < Rank(trace[j])

(***************************************************************************)
(* C6  In an authenticated invocation the folder listing is issued only    *)
(* after the settle delay has elapsed; no remote-store operation happens   *)
(* between authentication and the end of the delay.                        *)
(***************************************************************************)
C6_DelayBeforeAnyOperation ==
    /\ \A i \in 1..Len(trace) :
          trace[i] \in RemoteSteps =>
              \E j \in 1..(i - 1) : trace[j] = "delay" /\ j > 1 /\ trace[j - 1] = "signature"
    /\ pc = "delay" => NoRemoteOperation

(***************************************************************************)
(* C7  With distinct modification times, discovery selects the entry with  *)
(* the greatest time among the file entries whose name ends in .csv        *)
(* (in any case, as C8 says); folders and other files are never selected.  *)
(***************************************************************************)
IsCsvEntry(f) == f.tag = "file" /\ EndsWith(ToLowerCase(f.name), DotCsv)

CsvEntries(listing) == {listing[i] : i \in {k \in 1..Len(listing) : IsCsvEntry(listing[k])}}

Listed == Contains(trace, "list") /\ failedAt # "list"

C7_SelectsNewestCsv ==
    (Listed /\ targetFile # NoFile) =>
        /\ targetFile \in CsvEntries(folderContents)
        /\ \A f \in CsvEntries(folderContents) :
              f.server_modified <= targetFile.server_modified

\* in every revision: what is selected is a file that passed the filter,
\* and the newest of those
C7_SelectsNewestOfFiltered ==
    (Listed /\ targetFile # NoFile) =>
        /\ IsCsvEntry(targetFile)
        /\ Contains(folderContents, targetFile)
        /\ \A i \in 1..Len(folderContents) :
              PassesFilter(rev, folderContents[i]) =>
                  folderContents[i].server_modified <= targetFile.server_modified

(***************************************************************************)
(* C8  The filter matches the .csv suffix without regard to case: a file   *)
(* named with an upper-case suffix is a candidate like any other.          *)
(***************************************************************************)
C8_UpperCaseSuffixIsCandidate ==
    (Listed /\ csvFiles # <<>>) =>
        \A i \in 1..Len(folderContents) :
            IsCsvEntry(folderContents[i]) => Contains(csvFiles, folderContents[i])

(***************************************************************************)
(* C9  When the listing is empty or holds no CSV file entry, an            *)
(* authenticated invocation answers 200 and performs no download, no       *)
(* archive move, no template download and no upload.                       *)
(***************************************************************************)
C9_NothingToProcess ==
    (Listed /\ CsvEntries(folderContents) = {}) =>
        /\ pc = "done"
        /\ responses = <<200>>
        /\ \A i \in 1..Len(trace) : trace[i] \notin RemoteSteps \ {"list"}
        /\ inputFolder = folderContents

C9_Witness ==
    /\ Listed
    /\ folderContents # <<>>
    /\ CsvEntries(folderContents) = {}
    /\ responses = <<200>>

(***************************************************************************)
(* C10  The invoice step (template download, fill, upload) is performed    *)
(* if and only if the transformed product sequence is non-empty.           *)
(***************************************************************************)
InvoiceSteps == {"template_link", "template_download", "upload"}

InvoiceStarted == \E i \in 1..Len(trace) : trace[i] \in InvoiceSteps

Transformed == Contains(trace, "transform") /\ failedAt # "transform"

C10_InvoiceIffProducts ==
    /\ InvoiceStarted => (Transformed /\ Len(products) > 0)
    /\ (pc = "done" /\ Transformed /\ failedAt = "none") =>
          (Contains(trace, "upload") <=> Len(products) > 0)

C10_Witness ==
    /\ pc = "done"
    /\ responses = <<200>>
    /\ Contains(trace, "upload")
    /\ Len(products) > 0

\* the other side of C10: a CSV without data rows is archived, no invoice
C10_EmptyReached ==
    /\ pc = "done"
    /\ responses = <<200>>
    /\ Transformed
    /\ Len(products) = 0

(***************************************************************************)
(* C11  After authentication the first failure of a remote-store           *)
(* operation ends the invocation: the failed operation is the last step    *)
(* and the response is 500, never 200.                                     *)
(***************************************************************************)
C11_RemoteFailureAborts ==
    failedAt \in RemoteSteps =>
        /\ pc = "done"
        /\ responses = <<500>>
        /\ trace[Len(trace)] = failedAt

\* the same in the revisions that list the input folder
C11_FolderPipelineAborts ==
    (failedAt \in RemoteSteps /\ rev.pipeline = "folder") =>
        /\ pc = "done"
        /\ responses = <<500>>
        /\ trace[Len(trace)] = failedAt

(***************************************************************************)
(* C12  When the listing of the input folder fails, the invocation answers *)
(* 500, nothing is downloaded, moved or uploaded, and the remote store is  *)
(* as it was when the invocation began.                                    *)
(***************************************************************************)
C12_ListingFailureLeavesStore ==
    failedAt = "list" =>
        /\ pc = "done"
        /\ responses = <<500>>
        /\ trace[Len(trace)] = "list"
        /\ \A i \in 1..Len(trace) : trace[i] \notin RemoteSteps \ {"list"}
        /\ <<inputFolder, processed, invoices>> = storeBefore

C12_Witness ==
    /\ failedAt = "list"
    /\ CsvEntries(inputFolder) # {}
    /\ responses = <<500>>

(***************************************************************************)
(* C13  When the invoice upload fails after the archive move succeeded,    *)
(* the invocation answers 500, the source CSV is in the processed folder   *)
(* and no longer in the input folder, no invoice was added to the output   *)
(* folder, and no remote operation follows the failed upload.              *)
(***************************************************************************)
MovedBeforeUpload ==
    \E i, j \in 1..Len(trace) : i < j /\ trace[i] = "move" /\ trace[j] = "upload"

C13_UploadFailureKeepsArchive ==
    (failedAt = "upload" /\ MovedBeforeUpload) =>
        /\ pc = "done"
        /\ responses = <<500>>
        /\ trace[Len(trace)] = "upload"
        /\ ~InInputFolder(targetFile)
        /\ \E a \in processed : a.name = targetFile.name /\ a.stamp = clock
        /\ invoices = storeBefore[3]

C13_Witness ==
    /\ failedAt = "upload"
    /\ MovedBeforeUpload
    /\ responses = <<500>>
    /\ processed # {}

(***************************************************************************)
(* C14  When the CSV parser reports an error, the invocation answers 500:  *)
(* no product record is transformed, no invoice is generated or uploaded.  *)
(***************************************************************************)
ParserReportedError == failedAt = "parse" /\ csvContent.kind = "csv"

C14_ParserErrorStopsPipeline ==
    ParserReportedError =>
        /\ pc = "done"
        /\ responses = <<500>>
        /\ trace[Len(trace)] = "parse"
        /\ products = <<>>
        /\ invoices = storeBefore[3]

C14_Witness ==
    /\ ParserReportedError
    /\ csvContent.rows # <<>>
    /\ responses = <<500>>

(***************************************************************************)
(* C20  The product at position i of the batch (from 0, in row order) is   *)
(* written to worksheet row 13 + i: productId in column A, style in B,     *)
(* productName in C, amount in E, rrp in F; column D of the row is left as *)
(* the template has it, and no two products share a row.                   *)
(***************************************************************************)
UploadedNow == {v \in invoices : v.stamp = clock}

C20_ProductRows ==
    \A v \in UploadedNow :
        /\ \A i \in 0..(Len(products) - 1) :
              /\ v.sheet[<<"A", 13 + i>>] = TextCell(products[i + 1].productId)
              /\ v.sheet[<<"B", 13 + i>>] = TextCell(products[i + 1].style)
              /\ v.sheet[<<"C", 13 + i>>] = TextCell(products[i + 1].productName)
              /\ v.sheet[<<"D", 13 + i>>] = TemplateCell
              /\ v.sheet[<<"E", 13 + i>>] = NumberCell(products[i + 1].amount)
              /\ v.sheet[<<"F", 13 + i>>] = NumberCell(products[i + 1].rrp)
        /\ \A i, j \in 0..(Len(products) - 1) :
              i # j => v.sheet[<<"A", 13 + i>>] # v.sheet[<<"A", 13 + j>>]
        /\ \A k \in 1..Len(Columns) :
              v.sheet[<<Columns[k], 13 + Len(products)>>] = TemplateCell

C20_Witness ==
    \E v \in UploadedNow : Len(products) = 2 /\ v.rows = 2

(***************************************************************************)
(* C15  The transformer never raises on the numeric fields: whatever       *)
(* amount, purchase_price_dkk and rrp hold, and also when one of them is   *)
(* missing from the row, a product is produced, with 0 for a field that is *)
(* missing, and the invocation does not fail in the transformation.        *)
(***************************************************************************)
Transformed1 == pc # "transform"

C15_NumericFieldsNeverRaise ==
    (Transformed1 /\ parsedData[1].locations # Missing) =>
        /\ failedAt # "transform"
        /\ Len(products) = 1
        /\ parsedData[1].amount = Missing => products[1].amount = Zero
        /\ parsedData[1].rrp = Missing => products[1].rrp = Zero
        /\ parsedData[1].purchase_price_dkk = Missing => products[1].purchasePriceDKK = Zero

\* what the handler keeps of it: the amount never makes it raise, and with
\* the decimal fields present nothing raises
C15_AmountNeverRaises ==
    (Transformed1 /\ ~TransformThrows(parsedData)) =>
        /\ failedAt # "transform"
        /\ Len(products) = 1
        /\ ~products[1].amount.nan
        /\ parsedData[1].amount = Missing => products[1].amount = Zero

(***************************************************************************)
(* C16  For a raw record without a locations field the transformer yields  *)
(* a product whose locations is the empty sequence, does not raise, and    *)
(* the invocation goes on to the archive and invoice steps.                *)
(***************************************************************************)
C16_MissingLocationsGivesEmpty ==
    (Transformed1 /\ parsedData[1].locations = Missing) =>
        /\ failedAt # "transform"
        /\ pc \in {"move", "template_link"}
        /\ Len(products) = 1
        /\ products[1].locations = <<>>

(***************************************************************************)
(* C17  Decimal parsing maps "1.234,56" to 1234.56, "123,45" to 123.45     *)
(* and "abc" to 0.0.                                                       *)
(***************************************************************************)
DecimalExample(str) ==
    CASE str = <<"1", ".", "2", "3", "4", ",", "5", "6">> ->
             [nan |-> FALSE, units |-> 123456, scale |-> 2]
      [] str = <<"1", "2", "3", ",", "4", "5">> ->
             [nan |-> FALSE, units |-> 12345, scale |-> 2]
      [] str = <<"a", "b", "c">> -> Zero

DecimalExamples ==
    {<<"1", ".", "2", "3", "4", ",", "5", "6">>, <<"1", "2", "3", ",", "4", "5">>,
     <<"a", "b", "c">>}

C17_DecimalExamples ==
    (Transformed1 /\ parsedData[1].rrp \in DecimalExamples) =>
        /\ Len(products) = 1
        /\ products[1].rrp = DecimalExample(parsedData[1].rrp)
        /\ products[1].purchasePriceDKK = DecimalExample(parsedData[1].purchase_price_dkk)

\* the same where the field is cleaned before it is parsed (index.js)
C17_ExamplesWhereCleaned ==
    (Transformed1 /\ rev.cleansDecimals /\ parsedData[1].rrp \in DecimalExamples) =>
        /\ Len(products) = 1
        /\ products[1].rrp = DecimalExample(parsedData[1].rrp)
        /\ products[1].purchasePriceDKK = DecimalExample(parsedData[1].purchase_price_dkk)

(***************************************************************************)
(* C18  Every product has an integer amount that is at least 0, whatever   *)
(* the raw amount is, a leading minus sign included; "7" gives 7 and "x"   *)
(* gives 0.                                                                *)
(***************************************************************************)
C18_AmountNotNegative ==
    (Transformed1 /\ Len(products) = 1) =>
        /\ ~products[1].amount.nan
        /\ products[1].amount.scale = 0
        /\ products[1].amount.units >= 0
        /\ parsedData[1].amount = <<"7">> => products[1].amount.units = 7
        /\ parsedData[1].amount = <<"x">> => products[1].amount.units = 0

\* what holds of the amount: an integer, 7 for "7" and 0 for "x"
C18_AmountIsInteger ==
    (Transformed1 /\ Len(products) = 1) =>
        /\ ~products[1].amount.nan
        /\ products[1].amount.scale = 0
        /\ parsedData[1].amount = <<"7">> => products[1].amount.units = 7
        /\ parsedData[1].amount = <<"x">> => products[1].amount.units = 0

(***************************************************************************)
(* C19  The locations field is split at every '-' and every segment is     *)
(* trimmed, in the order of the field: "A-B - C" gives <<"A","B","C">>,    *)
(* and there is one segment more than there are '-' in the field.          *)
(***************************************************************************)
Count(str, ch) == Cardinality({i \in 1..Len(str) : str[i] = ch})

WithoutSpaces(str) == LET Kept(c) == c # " " IN SelectSeq(str, Kept)

RECURSIVE Joined(_)
\* the segments without their spaces, put together again with '-'
Joined(segs) ==
    IF Len(segs) = 1 THEN WithoutSpaces(segs[1])
    ELSE WithoutSpaces(segs[1]) \o <<"-">> \o Joined(Tail(segs))

C19_LocationsSplit ==
    (Transformed1 /\ Len(products) = 1) =>
        LET raw  == parsedData[1].locations
            segs == products[1].locations
        IN  /\ Len(segs) = 1 + Count(raw, "-")
            /\ \A i \in 1..Len(segs) :
                   /\ Count(segs[i], "-") = 0
                   /\ segs[i] = <<>> \/ (segs[i][1] # " " /\ segs[i][Len(segs[i])] # " ")
            /\ Joined(segs) = WithoutSpaces(raw)
            /\ raw = <<"A", "-", "B", " ", "-", " ", "C">> => segs = <<<<"A">>, <<"B">>, <<"C">>>>

C19_Witness ==
    /\ Transformed1
    /\ parsedData[1].locations = <<"A", "-", "B", " ", "-", " ", "C">>
    /\ Len(products) = 1
    /\ Len(products[1].locations) = 3

(***************************************************************************)
(* C21  In every invocation, all product records of the batch carry the    *)
(* same fileName, equal to the name of the one CSV entry the discovery     *)
(* step of that invocation selected.                                       *)
(***************************************************************************)
C21_BatchCarriesFileName ==
    Transformed =>
        \A i \in 1..Len(products) : products[i].fileName = targetFile.name

\* the same, for the revisions whose product records carry fileName, and the
\* selected entry is the head of the sorted listing
C21_FileNameWhereNamed ==
    (Transformed /\ rev.namesFile) =>
        /\ targetFile = csvFiles[1]
        /\ \A i \in 1..Len(products) : products[i].fileName = targetFile.name

(***************************************************************************)
(* C22  The customer name written to cell B5 is the source fileName with   *)
(* one trailing ".csv" removed by case-sensitive exact match: a.csv gives  *)
(* a, and a fileName ending in ".CSV" is left unchanged.                   *)
(***************************************************************************)
C22_CustomerNameInB5 ==
    \A v \in UploadedNow :
        /\ v.sheet[<<"B", 5>>] = TextCell(BaseName(v.customer))
        /\ v.customer = NameLower => v.sheet[<<"B", 5>>] = TextCell(<<"a">>)
        /\ v.customer = NameUpper => v.sheet[<<"B", 5>>] = TextCell(NameUpper)

\* the same, for the revisions whose generateInvoiceFile removes the suffix
\* with /\.csv$/ and writes B5
C22_CustomerNameWhereCaseSensitive ==
    (rev.invoice = "stamped" /\ ~rev.baseNameIgnoresCase) => C22_CustomerNameInB5

(***************************************************************************)
(* C23  Any two invoice uploads for the same customer name use distinct    *)
(* destination filenames of the form {customerName}_{timestamp}.xlsx, so   *)
(* no invoice upload ever overwrites an invoice uploaded by an earlier     *)
(* run: the invoices that were in the output folder when the invocation    *)
(* began are still there.                                                  *)
(***************************************************************************)
C23_InvoiceNeverOverwritten ==
    /\ storeBefore[3] \subseteq invoices
    /\ \A v \in invoices :
           v.path.name = CustomerName(rev, v.customer) \o <<"_">> \o IsoStamp(v.stamp)
                         \o DotXlsx

\* the same, for the revisions that put the instant into the name
C23_StampedInvoicesKept ==
    rev.invoice = "stamped" => C23_InvoiceNeverOverwritten

(***************************************************************************)
(* C24  The archive step moves the selected CSV from the input folder to a *)
(* path inside the processed folder whose name is the original name        *)
(* followed by a timestamp; after a successful move the file no longer     *)
(* exists at its input path, and two archivals of CSVs with the same       *)
(* original name never target the same destination path.                   *)
(***************************************************************************)
\* the names that carry the original name and the instant
StampedNames(name, now) ==
    {name \o <<"_">> \o Decimal(now) \o DotCsv,
     PathBaseName(name, DotCsv) \o <<"_">> \o Decimal(now) \o ExtName(name)}

MoveTried == Contains(trace, "move")

C24_ArchiveKeepsNamesApart ==
    MoveTried =>
        LET to == ArchivePath(rev, targetFile.name, clock)
        IN  /\ to.folder = "processed"
            /\ to.name \in StampedNames(targetFile.name, clock)
            /\ \A a \in processed : a.stamp # clock => a.path # to
            /\ failedAt # "move" =>
                  /\ ~InInputFolder(targetFile)
                  /\ \E a \in processed : a.path = to /\ a.content = targetFile.content

\* the same, for the revisions that put the instant into the name
C24_StampedArchiveKeepsNamesApart ==
    rev.archive # "plain" => C24_ArchiveKeepsNamesApart


(***************************************************************************)
(* C25  The invoice template is only read: no invocation writes, moves or  *)
(* overwrites it; it is the workbook it was, and no upload or archive move *)
(* has its path as destination.                                            *)
(***************************************************************************)
C25_TemplateOnlyRead ==
    /\ template = Template
    /\ \A v \in invoices : v.path.folder = "invoice" /\ v.path # TemplatePath
    /\ \A a \in processed : a.path.folder = "processed" /\ a.path # TemplatePath

\* an invocation that read the template, uploaded its invoice and archived
C25_Witness ==
    /\ pc = "done"
    /\ responses = <<200>>
    /\ Contains(trace, "template_download")
    /\ \E v \in invoices : v.stamp = clock /\ v.sheet # Template
    /\ \E a \in processed : a.stamp = clock
    /\ template = Template


(***************************************************************************)
(* C26  An invocation processes at most one CSV file: it downloads at most *)
(* one CSV, issues at most one archive move and at most one invoice        *)
(* upload, however many CSV files the input folder holds.                  *)
(***************************************************************************)
C26_AtMostOneFile ==
    /\ Count(trace, "download") <= 1
    /\ Count(trace, "move") <= 1
    /\ Count(trace, "upload") <= 1
    /\ Len(storeBefore[1]) - Len(inputFolder) <= 1
    /\ Cardinality(processed \ storeBefore[2]) <= 1
    /\ Cardinality(invoices \ storeBefore[3]) <= 1

\* two CSV files in the folder, one of them processed to the end
C26_Witness ==
    /\ pc = "done"
    /\ responses = <<200>>
    /\ Len(csvFiles) = 2
    /\ Count(trace, "download") = 1
    /\ Count(trace, "move") = 1
    /\ Count(trace, "upload") = 1
    /\ \E i \in 1..Len(inputFolder) : IsCsvEntry(inputFolder[i])


(***************************************************************************)
(* C27  The file an authenticated invocation selects and processes depends *)
(* only on the listing of the input folder, not on the webhook payload:    *)
(* whatever the validly signed body is (a body without any member          *)
(* included), the candidates, the selected file and the response are the   *)
(* ones the folder state and the outcome of the remote calls determine.    *)
(***************************************************************************)
\* the candidates a revision finds in a folder
CandidatesIn(r, folder) ==
    IF r.entriesAt = "entries" THEN SortNewestFirst(FilterCsv(r, folder)) ELSE <<>>

\* the response of a revision for a folder and a failed step
AnswerFor(r, folder, failure) ==
    IF r.pipeline = "cursor" THEN <<200, r.complete>>
    ELSE IF failure # "none" THEN <<500, ErrorBody(r, failure)>>
    ELSE IF CandidatesIn(r, folder) = <<>> THEN <<200, r.nothing>>
    ELSE <<200, r.complete>>

C27_WitnessNotification ==
    /\ Authenticated
    /\ wire = BodyAccount
    /\ Accounts(reqBody) # <<>>
    /\ rev.pipeline = "folder"
    /\ pc = "done"
    /\ responses = <<200>>
    /\ Contains(trace, "move")
    /\ CandidatesIn(rev, storeBefore[1]) # <<>>
    /\ targetFile = CandidatesIn(rev, storeBefore[1])[1]


(***************************************************************************)
(* C28  Every failure after authentication yields the same response to the *)
(* caller, status 500 with one fixed body, whichever step failed and       *)
(* whichever file was involved.                                            *)
(***************************************************************************)
FailedAfterAuthentication == Authenticated /\ pc = "done" /\ failedAt # "none"

C28_OneFailureResponse ==
    FailedAfterAuthentication => (responses = <<500>> /\ sent = <<rev.error>>)

\* the same, for the handlers with one try block around the pipeline
C28_OneFailureResponseOneCatch ==
    (rev.pipeline = "folder" /\ ~rev.innerCatch) => C28_OneFailureResponse


(***************************************************************************)
(* C29  A GET on /webhook responds with the value of the challenge query   *)
(* parameter, verbatim and as plain text, and performs no remote-store     *)
(* operation.                                                              *)
(***************************************************************************)
ChallengeAnswered == pc = "done" /\ trace = <<"challenge">>

StoreAsBefore ==
    /\ inputFolder = storeBefore[1]
    /\ processed = storeBefore[2]
    /\ invoices = storeBefore[3]
    /\ template = Template

Echoed ==
    /\ responses = <<200>>
    /\ Len(sent) = 1
    /\ sent[1].type = "text/plain"
    /\ sent[1].text = query
    /\ NoRemoteOperation
    /\ StoreAsBefore

\* as stated: whatever the value of the parameter is
C29_ChallengeEchoed == (ChallengeAnswered /\ query # Missing) => Echoed

\* where there is a GET handler, a challenge that is not the empty string is
\* sent back verbatim as plain text, with no remote-store operation
C29_NonEmptyChallengeEchoed ==
    (ChallengeAnswered /\ rev.challenge # "none" /\ query \notin {Missing, <<>>}) => Echoed

\* in no revision a GET touches the remote store
C29_NoRemoteOperation == ChallengeAnswered => (NoRemoteOperation /\ StoreAsBefore)

\* the handler that checks the parameter echoes a challenge of two characters
C29_EchoReached ==
    /\ ChallengeAnswered
    /\ rev.challenge = "checked"
    /\ query = <<"a", "b">>
    /\ sent = <<SendText(<<"a", "b">>)>>
    /\ Len(inputFolder) > 0


(***************************************************************************)
(* C30  Parsing empty CSV text yields the empty record sequence and is not *)
(* an error: an invocation whose selected CSV is empty does not respond    *)
(* 500 on account of the parse step.                                       *)
(***************************************************************************)
ParsedEmptyText == csvContent = EmptyText /\ Contains(trace, "parse")

C30_EmptyTextParsesToNothing ==
    ParsedEmptyText => (failedAt # "parse" /\ parsedData = <<>>)

\* the same, for the parsers that resolve with every row
C30_EmptyTextParsesToNothingAllRows ==
    rev.parser = "rows" => C30_EmptyTextParsesToNothing

\* an empty CSV taken through the handler to its 200
C30_EmptyTextReached ==
    /\ ParsedEmptyText
    /\ pc = "done"
    /\ responses = <<200>>
    /\ parsedData = <<>>


(***************************************************************************)
(* C31  The parser emits exactly one record per data row, in row order,    *)
(* and never emits the header row as a data record: for CSV text with one  *)
(* header line and k data lines the result has length k.                   *)
(***************************************************************************)
ParsedCsv == csvContent.kind = "csv" /\ Contains(trace, "parse") /\ failedAt # "parse"

C31_OneRecordPerDataRow ==
    ParsedCsv =>
        /\ Len(parsedData) = Len(csvContent.rows)
        /\ \A i \in 1..Len(parsedData) : parsedData[i] = csvContent.rows[i]
        /\ \A i \in 1..Len(parsedData) : parsedData[i] # HeaderLine

\* the same, for the parsers that take their keys from the header line and
\* resolve with every row
C31_OneRecordPerDataRowAllRows ==
    rev.parser = "rows" => C31_OneRecordPerDataRow

\* a CSV of two data rows parsed to two records
C31_TwoRowsReached ==
    /\ ParsedCsv
    /\ Len(csvContent.rows) = 2
    /\ parsedData = csvContent.rows


(***************************************************************************)
(* C32  End to end: for a CSV with the header line and the single fully    *)
(* quoted data row "P1";"S1";"Widget";"M";"10";"A-B";"100,00";"150,00";    *)
(* "8471";"DK" the pipeline produces exactly one product record with       *)
(* productId P1, amount 10, locations [A, B], purchasePriceDKK 100.0 and   *)
(* rrp 150.0, and writes P1, S1, Widget, (nothing), 10, 150.0 into row 13, *)
(* columns A to F.                                                         *)
(***************************************************************************)
Whole(n) == [nan |-> FALSE, units |-> n, scale |-> 0]

\* the product and the invoice row the claim names
WidgetProduced ==
    /\ Len(parsedData) = 1
    /\ Transformed =>
          /\ Len(products) = 1
          /\ products[1].productId = <<"P", "1">>
          /\ products[1].amount = Whole(10)
          /\ products[1].locations = << <<"A">>, <<"B">> >>
          /\ products[1].purchasePriceDKK = Whole(100)
          /\ products[1].rrp = Whole(150)
    /\ \A v \in UploadedNow :
          /\ v.sheet[<<"A", 13>>] = TextCell(<<"P", "1">>)
          /\ v.sheet[<<"B", 13>>] = TextCell(<<"S", "1">>)
          /\ v.sheet[<<"C", 13>>] = TextCell(<<"W", "i", "d", "g", "e", "t">>)
          /\ v.sheet[<<"D", 13>>] = TemplateCell
          /\ v.sheet[<<"E", 13>>] = NumberCell(Whole(10))
          /\ v.sheet[<<"F", 13>>] = NumberCell(Whole(150))

ParsedText == csvContent.kind = "text" /\ Contains(trace, "parse")

C32_QuotedRowEndToEnd ==
    (ParsedText /\ csvContent = WidgetText(AllQuoted)) => WidgetProduced

\* the same row with its first field written without quotes, whatever the
\* quoting of the other fields
C32_RowEndToEndFirstFieldBare ==
    (ParsedText /\ \E q \in Quotings : ~q[1] /\ csvContent = WidgetText(q)) => WidgetProduced

\* the row without any quotes, taken to its invoice
C32_BareRowReached ==
    /\ ParsedText
    /\ csvContent = WidgetText([i \in 1..Len(WidgetFields) |-> FALSE])
    /\ WidgetProduced
    /\ UploadedNow # {}
    /\ pc = "done"
    /\ responses = <<200>>


(***************************************************************************)
(* C33  When two invocations run concurrently and both select the same     *)
(* CSV, the archive move is the serialization point: the invocation whose  *)
(* move fails because the file was already moved uploads no invoice, so at *)
(* most one invoice is uploaded per source CSV file across all             *)
(* interleavings.                                                          *)
(***************************************************************************)
\* the invocations of the process, the one that runs first
InFlight == <<Locals>> \o waiting

UploadedInvoice(l) == Contains(l.trace, "upload") /\ l.failedAt # "upload"

MoveFailed(l) == Contains(l.trace, "move") /\ l.failedAt = "move"

Moved(l) == Contains(l.trace, "move") /\ l.failedAt # "move"

SelectedSame(a, b) == a.targetFile # NoFile /\ a.targetFile.name = b.targetFile.name

MoveIsSerializationPoint ==
    /\ \A i \in 1..Len(InFlight) : MoveFailed(InFlight[i]) => ~UploadedInvoice(InFlight[i])
    /\ \A i, j \in 1..Len(InFlight) :
          (i # j /\ SelectedSame(InFlight[i], InFlight[j]))
             => ~(UploadedInvoice(InFlight[i]) /\ UploadedInvoice(InFlight[j]))

C33_MoveIsSerializationPoint == MoveIsSerializationPoint

\* the handler that archives before it builds the invoice
C33_MoveFirstIsSerializationPoint == rev.archiveFirst => MoveIsSerializationPoint

\* both selected the same CSV, one moved it and uploaded the invoice, the
\* move of the other one failed on the file that was gone
C33_LoserReached ==
    /\ rev.archiveFirst
    /\ Len(waiting) = 1
    /\ SelectedSame(Locals, waiting[1])
    /\ MoveFailed(Locals)
    /\ ~InInputFolder(targetFile)
    /\ responses = <<500>>
    /\ Moved(waiting[1])
    /\ UploadedInvoice(waiting[1])
    /\ waiting[1].responses = <<200>>


(***************************************************************************)
(* C34  Invocations share no mutable in-process state: the remote          *)
(* operations and the response of an invocation are a function of its      *)
(* request and the state of the remote store only, and are the same        *)
(* whether or not other invocations ran earlier in the same process.       *)
(***************************************************************************)
\* the handler has returned for the request l stands for
Returned(l) == l.pc = "done"

\* the same request met the same remote store, and the store behaved alike
\* (the same call failed, or none)
SameRequestSameStore(a, b) ==
    /\ a.wire = b.wire
    /\ a.sigHeader = b.sigHeader
    /\ a.rawBody = b.rawBody
    /\ a.storeBefore = b.storeBefore
    /\ a.failedAt = b.failedAt

SameOutcome(a, b) ==
    /\ a.trace = b.trace
    /\ a.responses = b.responses
    /\ a.sent = b.sent

AsTheEarlierInvocation ==
    \A i \in 1..Len(waiting) :
        (Returned(Locals) /\ Returned(waiting[i]) /\ SameRequestSameStore(Locals, waiting[i]))
            => SameOutcome(Locals, waiting[i])

C34_NoSharedState == AsTheEarlierInvocation

\* the handlers that keep nothing between two requests
C34_NoSharedStateWithoutCursors == rev.pipeline # "cursor" => AsTheEarlierInvocation

\* a second notification found the folder as the first one had found it,
\* after the first one had failed at the download, and went the same way
C34_SecondRunReached ==
    /\ rev.pipeline # "cursor"
    /\ Len(waiting) = 1
    /\ Returned(Locals)
    /\ Returned(waiting[1])
    /\ SameRequestSameStore(Locals, waiting[1])
    /\ failedAt = "download"
    /\ responses = <<500>>
    /\ SameOutcome(Locals, waiting[1])


(***************************************************************************)
(* C35  Every authenticated invocation eventually sends a response: an     *)
(* external call (get-link, content download, move, upload) that never     *)
(* answers eventually fails through a client-side timeout and leads to a   *)
(* 500, rather than leaving the invocation waiting forever.                *)
(***************************************************************************)
AuthenticatedInFlight == Contains(trace, "signature") /\ responses = <<>>

Responded == responses # <<>>

C35_EventuallyResponds == AuthenticatedInFlight ~> Responded

\* an invocation whose external calls all answer, with a result or an error
C35_RespondsUnlessCallPending == AuthenticatedInFlight ~> (Responded \/ pc = "pending")

\* the download of the CSV was sent and is without an answer
C35_PendingReached ==
    /\ pc = "pending"
    /\ trace[Len(trace)] = "download"
    /\ responses = <<>>


(***************************************************************************)
(* C36  The discovery step considers every entry of the input folder: the  *)
(* file it selects is the most recently modified CSV present in the        *)
(* folder, also when the folder holds more entries than the listing call's *)
(* limit parameter (10, 20 or 1) returns in its first page.                *)
(***************************************************************************)
IsCsvFile(f) == f.tag = "file" /\ EndsWith(ToLowerCase(f.name), DotCsv)

CsvPositions == {i \in 1..Len(inputFolder) : IsCsvFile(inputFolder[i])}

SelectsNewestOfFolder ==
    (Listed /\ CsvPositions # {}) =>
        /\ \E i \in CsvPositions : inputFolder[i] = targetFile
        /\ \A i \in CsvPositions : inputFolder[i].server_modified <= targetFile.server_modified

C36_SelectsNewestOfFolder == SelectsNewestOfFolder

\* the folders that fit into one page of the listing
C36_SelectsNewestOfFirstPage ==
    (rev.limit = NoLimit \/ Len(inputFolder) <= rev.limit) => SelectsNewestOfFolder

\* a folder of ten files, the newest listed last, and a limit of ten
C36_FullPageReached ==
    /\ Listed
    /\ rev.limit = 10
    /\ Len(inputFolder) = 10
    /\ targetFile = inputFolder[10]
    /\ \A i \in 1..9 : inputFolder[i].server_modified < targetFile.server_modified


(***************************************************************************)
(* C37  An invocation that ends in 500 before its archive move was issued  *)
(* leaves the input folder unchanged, so the next invocation against an    *)
(* otherwise unchanged folder selects the same CSV again; a CSV whose      *)
(* download, parse or transform always fails is selected by every later    *)
(* invocation while it remains the newest.                                 *)
(***************************************************************************)
EndedBeforeMove(l) ==
    /\ Returned(l)
    /\ l.responses = <<500>>
    /\ ~Contains(l.trace, "move")

C37_FailureBeforeMoveKeepsFile ==
    /\ EndedBeforeMove(Locals) => inputFolder = storeBefore[1]
    /\ \A i \in 1..Len(waiting) :
          (EndedBeforeMove(waiting[i]) /\ waiting[i].targetFile # NoFile /\ Listed)
             => targetFile = waiting[i].targetFile

\* the download failed for the first notification, and the second one has
\* selected the same file
C37_SelectedAgainReached ==
    /\ Len(waiting) = 1
    /\ EndedBeforeMove(waiting[1])
    /\ waiting[1].failedAt = "download"
    /\ waiting[1].targetFile # NoFile
    /\ Listed
    /\ targetFile = waiting[1].targetFile
    /\ inputFolder = waiting[1].storeBefore[1]


(***************************************************************************)
(* C38  A 200 'processing complete' response that is not the               *)
(* nothing-to-process outcome implies that the archive move of the         *)
(* selected CSV succeeded and, when the product sequence was non-empty,    *)
(* that the invoice upload succeeded; the handler never responds 200 while *)
(* either operation is still pending or has failed.                        *)
(***************************************************************************)
ProcessingComplete == responses = <<200>> /\ sent = <<rev.complete>>

C38_CompleteMeansArchivedAndUploaded ==
    ProcessingComplete =>
        /\ pc = "done"
        /\ failedAt = "none"
        /\ Moved(Locals)
        /\ ~InInputFolder(targetFile)
        /\ \E a \in processed : a.name = targetFile.name /\ a.stamp = clock
        /\ Len(products) > 0 =>
              /\ UploadedInvoice(Locals)
              /\ \E v \in UploadedNow : v.rows = Len(products)

\* the 200 after the move and the upload of an invoice
C38_CompleteReached ==
    /\ ProcessingComplete
    /\ Len(products) > 0
    /\ Moved(Locals)
    /\ UploadedInvoice(Locals)

(***************************************************************************)
(* C39  When the selected CSV parses to zero data rows, the invocation     *)
(* still archives the CSV and responds 200, with no template download and  *)
(* no invoice upload; the consumed file is not selected again by a later   *)
(* invocation.                                                             *)
(***************************************************************************)
ParsedToZeroRows(l) ==
    /\ Contains(l.trace, "parse")
    /\ l.failedAt # "parse"
    /\ l.parsedData = <<>>

C39_ZeroRowsArchivedWithoutInvoice ==
    /\ ParsedToZeroRows(Locals) =>
          /\ \A i \in 1..Len(trace) : trace[i] \notin InvoiceSteps
          /\ invoices = storeBefore[3]
          /\ (pc = "done" /\ failedAt = "none") =>
                /\ responses = <<200>>
                /\ Moved(Locals)
                /\ ~InInputFolder(targetFile)
                /\ \E a \in processed : a.name = targetFile.name /\ a.stamp = clock
    /\ \A i \in 1..Len(waiting) :
          (ParsedToZeroRows(waiting[i]) /\ Moved(waiting[i]) /\ Listed)
             => targetFile.name # waiting[i].targetFile.name

\* a CSV of the header line alone was archived with a 200, and the next
\* notification has listed the folder
C39_ConsumedReached ==
    /\ Len(waiting) = 1
    /\ ParsedToZeroRows(waiting[1])
    /\ waiting[1].csvContent = [kind |-> "csv", rows |-> <<>>]
    /\ Moved(waiting[1])
    /\ waiting[1].responses = <<200>>
    /\ Listed
    /\ \E a \in processed : a.name = waiting[1].targetFile.name

====
